---------------------------- MODULE Spec2Model ----------------------------
(***************************************************************************)
(* A model of the calendar and email agent: the bounded conversation       *)
(* history (models.py), the keyword classifiers and the dispatch pipeline  *)
(* of CalendarAgent (main.py), and the free-slot walk of CalendarTools     *)
(* (tools.py).                                                             *)
(*                                                                         *)
(* A text is a sequence of strings.  An intent or a user input is spelled  *)
(* by its characters, so that str.lower() and the substring test           *)
(* `keyword in intent` are computed as Python computes them.  A rendered   *)
(* response is the name of its template followed by what it interpolates.  *)
(***************************************************************************)
EXTENDS Integers, Sequences, FiniteSets, TLC

VARIABLES
    pc,             \* the control point of the modelled code
    messages,       \* ConversationHistory.messages
    max_history,    \* ConversationHistory.max_history
    added,          \* history: every message add_message was called with, in order
    user_input,     \* run: the line read from the prompt
    turns,          \* number of utterances handed to _process_command
    analysis_data,  \* _process_command: the parsed descriptor
    handler,        \* which handler _process_command selected for the request
    classifier,     \* which classifier(s) ran for the request, in order
    intent_category,\* the classifier's category ("None" for Python's None)
    entities,       \* the classifier's entities
    model_calls,    \* the Model Gateway calls of the request, in order
    backend_calls,  \* the Backend Adapter operations of the request, in order
    review_shown,   \* send_email: the review was printed to the console
    user_choice,    \* send_email: the answer to the confirmation prompt
    response,       \* the text _process_command returned
    current_date,   \* _handle_calendar_action: datetime.now() as the list branch read it
    analysis,       \* _process_command: the analysis text, before and after cleaning
    json_text,      \* the text the analysis reply was built around
    fence,          \* the fence the analysis reply put around that text
    parsed,         \* _process_command: what json.loads gave for the cleaned text
    provider_requests, \* _get_ai_response: the requests made to the provider
    gateway_result, \* _get_ai_response: what the call returned or raised
    backend_message, \* GmailTools: the message the mail provider holds
    listed_email,   \* GmailTools.get_all_emails: the Email built for that message
    fetched_email,  \* GmailTools.get_email: the Email built for that message
    events,         \* check_availability: the events the backend returned
    range,          \* check_availability: [start, end] of the searched range
    duration_minutes, \* check_availability: the requested duration
    current_time,   \* check_availability: the cursor
    position,       \* check_availability: index of the next event to process
    available_slots \* check_availability: the slots found so far

vars == << pc, messages, max_history, added, user_input, turns,
           analysis_data, handler, classifier, intent_category, entities,
           model_calls, backend_calls, review_shown, user_choice, response,
           current_date, analysis, json_text, fence, parsed,
           provider_requests, gateway_result, backend_message, listed_email,
           fetched_email, events, range, duration_minutes, current_time,
           position, available_slots >>

historyVars == << messages, max_history, added >>
requestVars == << user_input, turns, analysis_data, handler, classifier,
                  intent_category, entities, model_calls, backend_calls,
                  review_shown, user_choice, response, current_date >>
parseVars   == << analysis, json_text, fence, parsed >>
gatewayVars == << provider_requests, gateway_result >>
mailVars    == << backend_message, listed_email, fetched_email >>
availVars   == << events, range, duration_minutes, current_time, position,
                  available_slots >>

-----------------------------------------------------------------------------
(* Bounds of the model.                                                    *)

MaxHistoryBound == 3    \* SpecHistory: max_history ranges over 0..MaxHistoryBound
MaxAdds == 5            \* SpecHistory: number of add_message calls
MaxTurns == 2           \* Spec: number of utterances processed in a session
MaxEmails == 2          \* Spec: number of emails the mail backend returns
MaxEvents == 3          \* SpecAvail: number of events the calendar backend returns
MaxTextLen == 4         \* SpecFence: length of the text inside the analysis reply
MaxStored == 2          \* SpecGateway: number of messages in the stored history

DefaultMaxHistory == 10 \* ConversationHistory.max_history default

-----------------------------------------------------------------------------
(* Texts.                                                                  *)

UpperCase == << "A","B","C","D","E","F","G","H","I","J","K","L","M",
                "N","O","P","Q","R","S","T","U","V","W","X","Y","Z" >>
LowerCase == << "a","b","c","d","e","f","g","h","i","j","k","l","m",
                "n","o","p","q","r","s","t","u","v","w","x","y","z" >>

\* str.lower(), character by character
LowerChar(c) ==
    IF \E i \in 1..Len(UpperCase) : UpperCase[i] = c
    THEN LowerCase[CHOOSE i \in 1..Len(UpperCase) : UpperCase[i] = c]
    ELSE c

Lower(s) == [i \in 1..Len(s) |-> LowerChar(s[i])]

\* Python's `k in s` for strings: k occurs in s as a contiguous substring
IsSubstring(k, s) ==
    \E i \in 1..(Len(s) - Len(k) + 1) : SubSeq(s, i, i + Len(k) - 1) = k

\* any(indicator in s for indicator in indicators)
AnyIn(indicators, s) == \E k \in indicators : IsSubstring(k, s)

gmail_summarize_indicators ==
    {
      <<"s","u","m","m","a","r","i","z","e">>,
      <<"s","u","m","m","a","r","i","s","e">>,
      <<"s","u","m","m","a","r","y">>,
      <<"s","u","m","m","a","r","i","e","s">>,
      <<"s","u","m","m","a","r","i","z","a","t","i","o","n">>,
      <<"s","u","m","m","a","r","i","s","a","t","i","o","n">>,
      <<"o","v","e","r","v","i","e","w">>,
      <<"r","e","v","i","e","w">>,
      <<"r","e","c","a","p">>,
      <<"r","e","c","a","p","i","t","u","l","a","t","e">>,
      <<"w","h","a","t","'","s"," ","i","n">>,
      <<"w","h","a","t"," ","i","s"," ","i","n">>,
      <<"w","h","a","t","s"," ","i","n">>,
      <<"w","h","a","t"," ","a","r","e"," ","m","y">>,
      <<"w","h","a","t"," ","a","r","e"," ","t","h","e">>,
      <<"u","n","r","e","a","d">>,
      <<"i","n","b","o","x">>,
      <<"e","m","a","i","l","s">>,
      <<"m","e","s","s","a","g","e","s">> }

gmail_send_indicators ==
    {
      <<"s","e","n","d">>,
      <<"w","r","i","t","e">>,
      <<"c","o","m","p","o","s","e">>,
      <<"d","r","a","f","t">>,
      <<"c","r","e","a","t","e">>,
      <<"n","e","w"," ","e","m","a","i","l">>,
      <<"n","e","w"," ","m","e","s","s","a","g","e">>,
      <<"w","r","i","t","e"," ","t","o">>,
      <<"e","m","a","i","l"," ","t","o">>,
      <<"m","a","i","l"," ","t","o">>,
      <<"m","e","s","s","a","g","e"," ","t","o">>,
      <<"f","o","r","w","a","r","d">>,
      <<"r","e","p","l","y">>,
      <<"r","e","s","p","o","n","d">>,
      <<"r","e","s","p","o","n","s","e">> }

gmail_retrieve_indicators ==
    {
      <<"g","e","t">>,
      <<"r","e","t","r","i","e","v","e">>,
      <<"f","e","t","c","h">>,
      <<"f","i","n","d">>,
      <<"s","e","a","r","c","h">>,
      <<"l","o","o","k"," ","u","p">>,
      <<"s","h","o","w"," ","m","e">>,
      <<"d","i","s","p","l","a","y">>,
      <<"v","i","e","w">>,
      <<"r","e","a","d">>,
      <<"o","p","e","n">>,
      <<"a","c","c","e","s","s">>,
      <<"s","p","e","c","i","f","i","c">>,
      <<"p","a","r","t","i","c","u","l","a","r">>,
      <<"c","e","r","t","a","i","n">>,
      <<"t","h","i","s"," ","e","m","a","i","l">> }


calendar_create_indicators ==
    {
      <<"c","r","e","a","t","e">>,
      <<"s","c","h","e","d","u","l","e">>,
      <<"a","d","d">>,
      <<"b","o","o","k">>,
      <<"s","e","t"," ","u","p">>,
      <<"s","e","t","u","p">>,
      <<"a","r","r","a","n","g","e">>,
      <<"p","l","a","n">> }

calendar_list_indicators ==
    {
      <<"l","i","s","t">>,
      <<"s","h","o","w">>,
      <<"d","i","s","p","l","a","y">>,
      <<"v","i","e","w">>,
      <<"c","h","e","c","k">>,
      <<"r","e","t","r","i","e","v","e">>,
      <<"g","e","t">>,
      <<"f","e","t","c","h">> }

calendar_availability_indicators ==
    {
      <<"a","v","a","i","l","a","b","l","e">>,
      <<"a","v","a","i","l","a","b","i","l","i","t","y">>,
      <<"f","r","e","e">>,
      <<"o","p","e","n">>,
      <<"w","h","e","n"," ","a","m"," ","i"," ","f","r","e","e">> }


email_intent_patterns ==
    {
      <<"e","m","a","i","l">>,
      <<"m","a","i","l">>,
      <<"i","n","b","o","x">>,
      <<"m","e","s","s","a","g","e">>,
      <<"c","o","r","r","e","s","p","o","n","d","e","n","c","e">>,
      <<"s","e","n","d">>,
      <<"w","r","i","t","e">>,
      <<"c","o","m","p","o","s","e">>,
      <<"d","r","a","f","t">>,
      <<"f","o","r","w","a","r","d">>,
      <<"r","e","p","l","y">>,
      <<"i","n","c","o","m","i","n","g">>,
      <<"o","u","t","g","o","i","n","g">>,
      <<"u","n","r","e","a","d">>,
      <<"r","e","a","d">>,
      <<"m","a","i","l","b","o","x">>,
      <<"c","o","m","m","u","n","i","c","a","t","i","o","n">>,
      <<"n","o","t","i","f","y">>,
      <<"n","o","t","i","f","i","c","a","t","i","o","n">>,
      <<"a","l","e","r","t">>,
      <<"r","e","m","i","n","d","e","r">>,
      <<"a","n","n","o","u","n","c","e","m","e","n","t">> }

calendar_intent_patterns ==
    {
      <<"c","a","l","e","n","d","a","r">>,
      <<"s","c","h","e","d","u","l","e">>,
      <<"e","v","e","n","t">>,
      <<"m","e","e","t","i","n","g">>,
      <<"a","p","p","o","i","n","t","m","e","n","t">>,
      <<"b","o","o","k","i","n","g">>,
      <<"r","e","s","e","r","v","a","t","i","o","n">>,
      <<"p","l","a","n">>,
      <<"a","r","r","a","n","g","e">>,
      <<"o","r","g","a","n","i","z","e">>,
      <<"t","i","m","e">>,
      <<"s","l","o","t">>,
      <<"a","v","a","i","l","a","b","i","l","i","t","y">>,
      <<"f","r","e","e">>,
      <<"b","u","s","y">>,
      <<"o","c","c","u","p","i","e","d">>,
      <<"u","p","c","o","m","i","n","g">>,
      <<"f","u","t","u","r","e">>,
      <<"d","a","t","e">>,
      <<"d","a","y">>,
      <<"w","e","e","k">>,
      <<"m","o","n","t","h">>,
      <<"a","g","e","n","d","a">>,
      <<"d","i","a","r","y">>,
      <<"t","i","m","e","t","a","b","l","e">>,
      <<"p","r","o","g","r","a","m">>,
      <<"s","e","s","s","i","o","n">>,
      <<"c","o","n","f","e","r","e","n","c","e">>,
      <<"c","a","l","l">>,
      <<"i","n","t","e","r","v","i","e","w">>,
      <<"p","r","e","s","e","n","t","a","t","i","o","n">> }

-----------------------------------------------------------------------------
(* The classifier tables of _detect_gmail_intent and                       *)
(* _detect_calendar_intent: categories in declaration order, each with its *)
(* indicators, its recognised entities and its required entities.          *)

gmail_intent_categories ==
    [ order      |-> << "summarize", "send", "retrieve" >>,
      indicators |-> [ summarize |-> gmail_summarize_indicators,
                       send      |-> gmail_send_indicators,
                       retrieve  |-> gmail_retrieve_indicators ],
      entities   |-> [ summarize |-> {"count", "unread_only", "time_period"},
                       send      |-> {"to", "subject", "content", "cc", "bcc"},
                       retrieve  |-> {"email_id", "search_query", "time_period"} ],
      required   |-> [ summarize |-> {},
                       send      |-> {"to", "subject", "content"},
                       retrieve  |-> {"email_id"} ] ]

calendar_intent_categories ==
    [ order      |-> << "create", "list", "availability" >>,
      indicators |-> [ create       |-> calendar_create_indicators,
                       list         |-> calendar_list_indicators,
                       availability |-> calendar_availability_indicators ],
      entities   |-> [ create       |-> {"event_title", "start_date", "duration",
                                         "attendees", "location"},
                       list         |-> {"start_date", "end_date", "count"},
                       availability |-> {"start_date", "end_date", "duration"} ],
      required   |-> [ create       |-> {"event_title", "start_date"},
                       list         |-> {},
                       availability |-> {"start_date", "end_date", "duration"} ] ]

\* Python's (None, None)
NoCategory == [ category |-> "None", entities |-> << >> ]

\* any(indicator in intent.lower() for indicator in info['indicators'])
IndicatorHit(table, category, intent) ==
    AnyIn(table.indicators[category], Lower(intent))

\* the same loop body without the required-entity validation
ProjectAndValidateNoCheck(table, category, params) ==
    [ category |-> category,
      entities |-> [ e \in (table.entities[category] \cap DOMAIN params)
                       |-> params[e] ] ]

\* a loop body that validates and returns the parameters as they are
ProjectAndValidateNoProjection(table, category, params) ==
    IF table.required[category] \subseteq DOMAIN params
    THEN [ category |-> category, entities |-> params ]
    ELSE NoCategory

\* a loop body that also recognises a duration under the key duration_minutes
ProjectAndValidateDurationAlias(table, category, params) ==
    LET aliased   == IF "duration_minutes" \in DOMAIN params
                        /\ "duration" \notin DOMAIN params
                     THEN [ k \in DOMAIN params \cup { "duration" } |->
                              IF k = "duration" THEN params["duration_minutes"]
                                                ELSE params[k] ]
                     ELSE params
        projected == [ e \in (table.entities[category] \cap DOMAIN aliased)
                         |-> aliased[e] ]
        missing   == { r \in table.required[category] : r \notin DOMAIN projected }
    IN  IF missing # {}
        THEN NoCategory
        ELSE [ category |-> category, entities |-> projected ]

\* the loop body once a category's indicator hit: project, validate, return
ProjectAndValidate(table, category, params) ==
    LET projected == [ e \in (table.entities[category] \cap DOMAIN params)
                         |-> params[e] ]
        missing   == { r \in table.required[category] : r \notin DOMAIN projected }
    IN  IF missing # {}
        THEN NoCategory
        ELSE [ category |-> category, entities |-> projected ]

\* for category, info in intent_categories.items(): ... return None, None
RECURSIVE DetectFrom(_, _, _, _)
DetectFrom(table, i, intent, params) ==
    IF i > Len(table.order)
    THEN NoCategory
    ELSE IF IndicatorHit(table, table.order[i], intent)
         THEN ProjectAndValidate(table, table.order[i], params)
         ELSE DetectFrom(table, i + 1, intent, params)

\* a classifier that tries the next category when required entities are missing
RECURSIVE DetectFromFallThrough(_, _, _, _)
DetectFromFallThrough(table, i, intent, params) ==
    IF i > Len(table.order)
    THEN NoCategory
    ELSE IF /\ IndicatorHit(table, table.order[i], intent)
            /\ table.required[table.order[i]] \subseteq DOMAIN params
         THEN ProjectAndValidate(table, table.order[i], params)
         ELSE DetectFromFallThrough(table, i + 1, intent, params)

\* a classifier that walks the table from its last category to its first
RECURSIVE DetectFromLast(_, _, _, _)
DetectFromLast(table, i, intent, params) ==
    IF i < 1
    THEN NoCategory
    ELSE IF IndicatorHit(table, table.order[i], intent)
         THEN ProjectAndValidate(table, table.order[i], params)
         ELSE DetectFromLast(table, i - 1, intent, params)

detect_intent_fall_through(table, intent, params) ==
    DetectFromFallThrough(table, 1, intent, params)

detect_intent_last_first(table, intent, params) ==
    DetectFromLast(table, Len(table.order), intent, params)

detect_intent(table, intent, params) == DetectFrom(table, 1, intent, params)

detect_gmail_intent(intent, params) ==
    detect_intent(gmail_intent_categories, intent, params)

detect_calendar_intent(intent, params) ==
    detect_intent(calendar_intent_categories, intent, params)

-----------------------------------------------------------------------------
(* ConversationHistory.                                                    *)

Roles == { "user", "assistant" }

Message(role, content) == [ role |-> role, content |-> content ]

add_message_no_eviction(msgs, maxh, role, content) ==
    Append(msgs, Message(role, content))

add_message_evict_newest(msgs, maxh, role, content) ==
    LET appended == Append(msgs, Message(role, content))
    IN  IF Len(appended) > maxh
        THEN SubSeq(appended, 1, Len(appended) - 1)
        ELSE appended

\* self.messages.append(...); if len(self.messages) > self.max_history: pop(0)
add_message(msgs, maxh, role, content) ==
    LET appended == Append(msgs, Message(role, content))
    IN  IF Len(appended) > maxh THEN Tail(appended) ELSE appended

-----------------------------------------------------------------------------
(* The inputs the model draws from.                                        *)

\* the intent strings the language model may put in its descriptor:
\* "summarize unread emails"; "send email"; "get email"; "send and fetch mail"; "Schedule meeting";
\* "list events"; "when am i free"; "send meeting invite"; "tell a joke"; "calendar";
\* "check availability"; "review and send email"; "schedule and list events"; "find free slot"
Intents ==
    {
      <<"s","u","m","m","a","r","i","z","e"," ","u","n","r","e","a","d"," ","e","m","a","i","l","s">>,
      <<"s","e","n","d"," ","e","m","a","i","l">>,
      <<"g","e","t"," ","e","m","a","i","l">>,
      <<"s","e","n","d"," ","a","n","d"," ","f","e","t","c","h"," ","m","a","i","l">>,
      <<"S","c","h","e","d","u","l","e"," ","m","e","e","t","i","n","g">>,
      <<"l","i","s","t"," ","e","v","e","n","t","s">>,
      <<"w","h","e","n"," ","a","m"," ","i"," ","f","r","e","e">>,
      <<"s","e","n","d"," ","m","e","e","t","i","n","g"," ","i","n","v","i","t","e">>,
      <<"t","e","l","l"," ","a"," ","j","o","k","e">>,
      <<"c","a","l","e","n","d","a","r">>,
      <<"c","h","e","c","k"," ","a","v","a","i","l","a","b","i","l","i","t","y">>,
      <<"r","e","v","i","e","w"," ","a","n","d"," ","s","e","n","d"," ","e","m","a","i","l">>,
      <<"s","c","h","e","d","u","l","e"," ","a","n","d"," ","l","i","s","t"," ","e","v","e","n","t","s">>,
      <<"f","i","n","d"," ","f","r","e","e"," ","s","l","o","t">> }

\* the keys the language model may put in the descriptor's parameters
ParamKeys == { "to", "subject", "content", "email_id", "event_title",
               "start_date", "end_date", "duration", "duration_minutes" }

ParamValues == { "a", "b" }

\* the parameters mappings: any set of keys, every key holding the same value
Parameters ==
    { [ k \in S |-> v ] : S \in SUBSET ParamKeys, v \in ParamValues }

Descriptor(intent, params) == [ intent |-> intent, parameters |-> params ]

NoDescriptor == Descriptor(<< >>, << >>)

-----------------------------------------------------------------------------
(* Values of the variables a specification does not use.                   *)

\* a datetime is a day number and a minute of that day; no clock was read
NoDate == [ day |-> 0, minute |-> 0 ]

IdleHistory ==
    /\ messages = << >>
    /\ max_history = DefaultMaxHistory
    /\ added = << >>

IdleRequest ==
    /\ user_input = << >>
    /\ turns = 0
    /\ analysis_data = NoDescriptor
    /\ handler = "none"
    /\ classifier = << >>
    /\ intent_category = "None"
    /\ entities = << >>
    /\ model_calls = << >>
    /\ backend_calls = << >>
    /\ review_shown = FALSE
    /\ user_choice = "none"
    /\ response = << >>
    /\ current_date = NoDate

\* a reply without a fence around its text
NoFence == [ open |-> << >>, close |-> << >> ]

\* no analysis text is being cleaned
IdleParse ==
    /\ analysis = << >>
    /\ json_text = << >>
    /\ fence = NoFence
    /\ parsed = << >>

\* no Model Gateway call is being made
NoResult == [ kind |-> "none", value |-> [ type |-> "none", text |-> "" ] ]

IdleGateway ==
    /\ provider_requests = << >>
    /\ gateway_result = NoResult

\* no Email was built
NoEmail == [ id |-> 0, is_read |-> FALSE ]

\* no message is being read from the mail provider
IdleMail ==
    /\ backend_message = [ id |-> 0, labelIds |-> {} ]
    /\ listed_email = NoEmail
    /\ fetched_email = NoEmail

IdleAvail ==
    /\ events = << >>
    /\ range = [ start |-> 0, end |-> 0 ]
    /\ duration_minutes = 0
    /\ current_time = 0
    /\ position = 0
    /\ available_slots = << >>

-----------------------------------------------------------------------------
(* SpecHistory: a ConversationHistory constructed empty with some          *)
(* max_history, and any sequence of add_message calls on it.               *)

Contents == { << "a" >>, << "b" >> }

InitHistory ==
    /\ pc = "history"
    /\ messages = << >>
    /\ max_history \in 0..MaxHistoryBound
    /\ added = << >>
    /\ IdleRequest
    /\ IdleParse
    /\ IdleGateway
    /\ IdleMail
    /\ IdleAvail

HistoryAdd ==
    /\ pc = "history"
    /\ Len(added) < MaxAdds
    /\ \E role \in Roles, content \in Contents :
         /\ messages' = add_message(messages, max_history, role, content)
         /\ added' = Append(added, Message(role, content))
    /\ UNCHANGED << pc, max_history, requestVars, parseVars, gatewayVars,
                    mailVars, availVars >>

NextHistory == HistoryAdd

SpecHistory == InitHistory /\ [][NextHistory]_vars

-----------------------------------------------------------------------------
(* SpecClassify: the two classifiers applied to any intent string and any  *)
(* parameters mapping.                                                     *)

InitClassify ==
    /\ pc = "classify"
    /\ analysis_data \in { Descriptor(i, p) : i \in Intents, p \in Parameters }
    /\ user_input = << >>
    /\ turns = 0
    /\ handler = "none"
    /\ classifier = << >>
    /\ intent_category = "None"
    /\ entities = << >>
    /\ model_calls = << >>
    /\ backend_calls = << >>
    /\ review_shown = FALSE
    /\ user_choice = "none"
    /\ response = << >>
    /\ current_date = NoDate
    /\ IdleParse
    /\ IdleGateway
    /\ IdleMail
    /\ IdleHistory
    /\ IdleAvail

ClassifyGmail ==
    /\ pc = "classify"
    /\ LET result == detect_gmail_intent(analysis_data.intent,
                                         analysis_data.parameters)
       IN  /\ intent_category' = result.category
           /\ entities' = result.entities
    /\ classifier' = << "gmail" >>
    /\ pc' = "classified"
    /\ UNCHANGED << historyVars, availVars, parseVars, gatewayVars, mailVars,
                    current_date, user_input, turns, analysis_data, handler,
                    model_calls, backend_calls, review_shown, user_choice,
                    response >>

ClassifyCalendar ==
    /\ pc = "classify"
    /\ LET result == detect_calendar_intent(analysis_data.intent,
                                            analysis_data.parameters)
       IN  /\ intent_category' = result.category
           /\ entities' = result.entities
    /\ classifier' = << "calendar" >>
    /\ pc' = "classified"
    /\ UNCHANGED << historyVars, availVars, parseVars, gatewayVars, mailVars,
                    current_date, user_input, turns, analysis_data, handler,
                    model_calls, backend_calls, review_shown, user_choice,
                    response >>

NextClassify == ClassifyGmail \/ ClassifyCalendar

SpecClassify == InitClassify /\ [][NextClassify]_vars

-----------------------------------------------------------------------------
(* SpecFence: the cleaning and parsing of the analysis text in             *)
(* _process_command, on any reply built from a short text with or without  *)
(* a Markdown code fence around it.  A text is a sequence of characters.    *)

\* the backtick character, which a string of this language cannot hold
Backtick == "BACKTICK"

\* the characters of the texts inside the reply
TextChars == { " ", "{", "}", "\"", Backtick }

Texts == UNION { [ 1..n -> TextChars ] : n \in 0..MaxTextLen }

FenceOpen == << Backtick, Backtick, Backtick, "j", "s", "o", "n" >>
FenceClose == << Backtick, Backtick, Backtick >>

\* the fences a reply may put around its text: none, ```json ... ```, the
\* same with line breaks inside, and an opening fence that is never closed
Fences ==
    { NoFence,
      [ open |-> FenceOpen, close |-> FenceClose ],
      [ open |-> FenceOpen \o << "\n" >>, close |-> << "\n" >> \o FenceClose ],
      [ open |-> FenceOpen \o << "\n" >>, close |-> << >> ] }

\* the whitespace of str.strip() and of json.loads that occurs in the texts
IsSpace(c) == c \in { " ", "\n" }

RECURSIVE lstrip(_)
lstrip(t) == IF t # << >> /\ IsSpace(t[1]) THEN lstrip(Tail(t)) ELSE t

RECURSIVE rstrip(_)
rstrip(t) ==
    IF t # << >> /\ IsSpace(t[Len(t)])
    THEN rstrip(SubSeq(t, 1, Len(t) - 1))
    ELSE t

\* str.strip()
strip(t) == rstrip(lstrip(t))

\* str.startswith(prefix), str.endswith(suffix)
startswith(t, prefix) ==
    Len(t) >= Len(prefix) /\ SubSeq(t, 1, Len(prefix)) = prefix
endswith(t, suffix) ==
    Len(t) >= Len(suffix) /\ SubSeq(t, Len(t) - Len(suffix) + 1, Len(t)) = suffix

\* a cleaning step that removes only the three backticks of the opening fence
remove_fence_open_backticks_only(t) ==
    IF startswith(t, FenceOpen) THEN SubSeq(t, 3 + 1, Len(t)) ELSE t

\* if analysis.startswith('```json'): analysis = analysis[7:]
remove_fence_open(t) ==
    IF startswith(t, FenceOpen) THEN SubSeq(t, 7 + 1, Len(t)) ELSE t

\* if analysis.endswith('```'): analysis = analysis[:-3]
remove_fence_close(t) ==
    IF endswith(t, FenceClose) THEN SubSeq(t, 1, Len(t) - 3) ELSE t

\* the cleaning step of _process_command
clean(t) == strip(remove_fence_close(remove_fence_open(strip(t))))

JSONDecodeError == << "JSONDecodeError" >>

\* json.loads on the texts over TextChars: whitespace, then an empty object
\* or a string without a quote or a control character in it, then whitespace
json_loads(t) ==
    LET body == strip(t)
        n    == Len(body)
    IN  IF n < 2 THEN JSONDecodeError
        ELSE IF /\ body[1] = "{"
                /\ body[n] = "}"
                /\ \A i \in 2..(n - 1) : IsSpace(body[i])
             THEN << "object" >>
        ELSE IF /\ body[1] = "\""
                /\ body[n] = "\""
                /\ \A i \in 2..(n - 1) : body[i] \notin { "\"", "\n" }
             THEN << "string" >> \o SubSeq(body, 2, n - 1)
        ELSE JSONDecodeError

InitFence ==
    /\ pc = "clean"
    /\ json_text \in Texts
    /\ fence \in Fences
    /\ analysis = fence.open \o json_text \o fence.close
    /\ parsed = << >>
    /\ IdleGateway
    /\ IdleMail
    /\ IdleHistory
    /\ IdleRequest
    /\ IdleAvail

\* analysis.strip(), the two fence tests, analysis.strip()
CleanAnalysis ==
    /\ pc = "clean"
    /\ analysis' = clean(analysis)
    /\ pc' = "loads"
    /\ UNCHANGED << historyVars, requestVars, availVars, gatewayVars,
                    mailVars, json_text, fence, parsed >>

\* analysis_data = json.loads(analysis)
LoadsParsed ==
    /\ pc = "loads"
    /\ json_loads(analysis) # JSONDecodeError
    /\ parsed' = json_loads(analysis)
    /\ pc' = "parsed"
    /\ UNCHANGED << historyVars, requestVars, availVars, gatewayVars,
                    mailVars, analysis, json_text, fence >>

\* json.loads raises json.JSONDecodeError
LoadsError ==
    /\ pc = "loads"
    /\ json_loads(analysis) = JSONDecodeError
    /\ parsed' = JSONDecodeError
    /\ pc' = "decode_error"
    /\ UNCHANGED << historyVars, requestVars, availVars, gatewayVars,
                    mailVars, analysis, json_text, fence >>

NextFence == CleanAnalysis \/ LoadsParsed \/ LoadsError

SpecFence == InitFence /\ [][NextFence]_vars
-----------------------------------------------------------------------------
(* SpecGateway: one call of _get_ai_response, on any stored history and    *)
(* any input, against a provider that answers or raises.                   *)

\* the histories the conversation may hold when the call is made
StoredHistories ==
    UNION { [ 1..n -> { Message(r, c) : r \in Roles, c \in { << "a" >>, << "b" >> } } ] :
              n \in 0..MaxStored }

\* the inputs the call may be made with
GatewayInputs == { << "p1" >>, << "p2" >> }

\* the texts the provider may answer with
ProviderTexts ==
    { [ type |-> "text", text |-> "t1" ], [ type |-> "text", text |-> "t2" ] }

\* the errors the provider client may raise: openai.BadRequestError with or
\* without "context_length_exceeded" in its text, and errors of other types
ProviderErrors ==
    { [ type |-> "BadRequestError", text |-> "context_length_exceeded" ],
      [ type |-> "BadRequestError", text |-> "invalid request" ],
      [ type |-> "RateLimitError", text |-> "rate limit" ],
      [ type |-> "RateLimitError", text |-> "context_length_exceeded" ],
      [ type |-> "APIConnectionError", text |-> "connection error" ] }

\* raise ValueError("The content is too long for the AI model to process.
\* Please try with fewer emails or shorter content.")
ContentTooLong ==
    [ type |-> "ValueError",
      text |-> "content too long, try fewer emails or shorter content" ]

\* messages = [system prompt, *conversation.messages, user input]
ProviderRequest(history, input, outcome) ==
    [ system |-> "system_prompt", history |-> history, user |-> input,
      outcome |-> outcome ]

\* a gateway that turns every provider error into the too-long error
raised_for_any_error_too_long(error) == ContentTooLong

\* except openai.BadRequestError as e:
\*     if "context_length_exceeded" in str(e): raise ValueError(...)
\*     raise
\* (an error of another type passes both handlers unchanged)
raised_for(error) ==
    IF error.type = "BadRequestError" /\ error.text = "context_length_exceeded"
    THEN ContentTooLong
    ELSE error

InitGateway ==
    /\ pc = "gateway"
    /\ messages \in StoredHistories
    /\ max_history = DefaultMaxHistory
    /\ added = messages
    /\ user_input \in GatewayInputs
    /\ turns = 0
    /\ analysis_data = NoDescriptor
    /\ handler = "none"
    /\ classifier = << >>
    /\ intent_category = "None"
    /\ entities = << >>
    /\ model_calls = << >>
    /\ backend_calls = << >>
    /\ review_shown = FALSE
    /\ user_choice = "none"
    /\ response = << >>
    /\ current_date = NoDate
    /\ IdleGateway
    /\ IdleMail
    /\ IdleParse
    /\ IdleAvail

\* a gateway that makes a second provider request when the first one raised
ProviderRaisesAndIsRetried ==
    /\ pc = "gateway"
    /\ \E error \in ProviderErrors :
         /\ provider_requests' = provider_requests \o
                << ProviderRequest(messages, user_input, error),
                   ProviderRequest(messages, user_input, error) >>
         /\ gateway_result' = [ kind |-> "raise", value |-> raised_for(error) ]
    /\ pc' = "gateway_done"
    /\ UNCHANGED << historyVars, requestVars, parseVars, mailVars,
                    availVars >>

\* client.chat.completions.create(...) returns: the text of the first choice
\* is returned
ProviderAnswers ==
    /\ pc = "gateway"
    /\ \E text \in ProviderTexts :
         /\ provider_requests' = Append(provider_requests,
                ProviderRequest(messages, user_input, text))
         /\ gateway_result' = [ kind |-> "return", value |-> text ]
    /\ pc' = "gateway_done"
    /\ UNCHANGED << historyVars, requestVars, parseVars, mailVars,
                    availVars >>

\* client.chat.completions.create(...) raises: the call raises to its caller
ProviderRaises ==
    /\ pc = "gateway"
    /\ \E error \in ProviderErrors :
         /\ provider_requests' = Append(provider_requests,
                ProviderRequest(messages, user_input, error))
         /\ gateway_result' = [ kind |-> "raise", value |-> raised_for(error) ]
    /\ pc' = "gateway_done"
    /\ UNCHANGED << historyVars, requestVars, parseVars, mailVars,
                    availVars >>

NextGateway == ProviderAnswers \/ ProviderRaises

SpecGateway == InitGateway /\ [][NextGateway]_vars
-----------------------------------------------------------------------------
(* Spec: one session of CalendarAgent.run.  Every call that leaves the     *)
(* process (a Model Gateway call, a Backend Adapter operation, a read from *)
(* the console) is a step of its own; the code between two such calls is   *)
(* part of the step it follows.                                            *)

\* the lines the user may type: "hi", "exit", "Exit"
UserInputs == { <<"h","i">>, <<"e","x","i","t">>, <<"E","x","i","t">> }

\* user_input.lower() == 'exit'
IsExit(line) == Lower(line) = <<"e","x","i","t">>

\* the descriptors the language model may answer the analysis prompt with:
\* "summarize unread emails"; "send email"; "get email"; "Schedule meeting"; "list events";
\* "when am i free"; "send meeting invite"; "tell a joke"; "calendar"
AgentIntents ==
    {
      <<"s","u","m","m","a","r","i","z","e"," ","u","n","r","e","a","d"," ","e","m","a","i","l","s">>,
      <<"s","e","n","d"," ","e","m","a","i","l">>,
      <<"g","e","t"," ","e","m","a","i","l">>,
      <<"S","c","h","e","d","u","l","e"," ","m","e","e","t","i","n","g">>,
      <<"l","i","s","t"," ","e","v","e","n","t","s">>,
      <<"w","h","e","n"," ","a","m"," ","i"," ","f","r","e","e">>,
      <<"s","e","n","d"," ","m","e","e","t","i","n","g"," ","i","n","v","i","t","e">>,
      <<"t","e","l","l"," ","a"," ","j","o","k","e">>,
      <<"c","a","l","e","n","d","a","r">> }

AgentKeySets ==
    { {},
      { "to", "subject", "content" },
      { "to", "subject" },
      { "email_id" },
      { "event_title", "start_date" },
      { "event_title", "start_date", "event_description" },
      { "start_date" },
      { "start_date", "end_date", "duration" },
      { "start_date", "end_date", "duration_minutes" },
      { "event_title", "start_date", "duration_minutes" },
      { "event_title", "start_date", "duration" },
      { "start_date", "end_date" } }

\* the dates the language model may put into a descriptor: a date text
\* "YYYY-MM-DD" is modelled by its day number
SuppliedDates == { 3 }

DateKeys == { "start_date", "end_date" }

\* the durations, in minutes, the language model may put into a descriptor
SuppliedDurations == { 30 }

DurationKeys == { "duration", "duration_minutes" }

AgentDescriptors ==
    { Descriptor(i, [ k \in S |-> IF k \in DateKeys THEN d
                                  ELSE IF k \in DurationKeys THEN m
                                  ELSE "a" ]) :
        i \in AgentIntents, S \in AgentKeySets, d \in SuppliedDates,
        m \in SuppliedDurations }

\* the readings datetime.now() may give
Clock == [ day : { 3, 5 }, minute : { 0, 600 } ]

\* datetime.strftime("%Y-%m-%d"): the date without the time of day
strftime_date(dt) == dt.day

\* dt + timedelta(days=n)
plus_days(dt, n) == [ dt EXCEPT !.day = @ + n ]

\* the texts the language model may answer a free-text question with
ModelTexts == { << "t1" >>, << "t2" >> }

\* the prompts _get_ai_response is called with
AnalysisPrompt(line) == << "analysis_prompt" >> \o line
SummaryPrompt == << "summary_prompt" >>
ReviewPrompt(to, subject, content) == << "review_prompt", to, subject, content >>

\* One Model Gateway call (_get_ai_response): the messages submitted are the
\* system prompt, the stored history and the new user message.  outcome is
\* "text", "too_large" (BadRequestError context_length_exceeded, raised as
\* ValueError) or "error" (any other provider error, raised unchanged).
ModelCall(purpose, input, outcome, reply) ==
    [ purpose |-> purpose, input |-> input, history |-> messages,
      outcome |-> outcome, reply |-> reply ]

\* One Backend Adapter operation.
BackendCall(op, args, outcome, result) ==
    [ op |-> op, args |-> args, outcome |-> outcome, result |-> result ]

DefaultEmailCount == 5      \* entities.get('count', 5)
DefaultDuration == 60       \* entities.get('duration', 60)
DefaultEventCount == 5      \* entities.get('count', 5)
DefaultListDays == 7        \* timedelta(days=7)

\* dict.get(key, default)
Get(mapping, key, default) ==
    IF key \in DOMAIN mapping THEN mapping[key] ELSE default

InitAgent ==
    /\ pc = "prompt"
    /\ messages = << >>
    /\ max_history = DefaultMaxHistory
    /\ added = << >>
    /\ IdleRequest
    /\ IdleParse
    /\ IdleGateway
    /\ IdleMail
    /\ IdleAvail

Init == InitAgent

\* what a request leaves behind when _process_command has returned and the
\* loop is back at the prompt: its locals are gone
ResetRequest ==
    /\ user_input' = << >>
    /\ analysis_data' = NoDescriptor
    /\ handler' = "none"
    /\ classifier' = << >>
    /\ intent_category' = "None"
    /\ entities' = << >>
    /\ model_calls' = << >>
    /\ backend_calls' = << >>
    /\ review_shown' = FALSE
    /\ user_choice' = "none"
    /\ response' = << >>
    /\ current_date' = NoDate

\* _process_command returns `text`
Return(text) ==
    /\ response' = text
    /\ pc' = "respond"

\* a loop that adds the line to the history before it tests for the exit
\* command
PromptExitAfterHistory ==
    /\ pc = "prompt"
    /\ \E line \in UserInputs :
         /\ IsExit(line)
         /\ user_input' = line
         /\ messages' = add_message(messages, max_history, "user", line)
         /\ added' = Append(added, Message("user", line))
    /\ pc' = "done"
    /\ UNCHANGED << max_history, availVars, parseVars, gatewayVars, mailVars,
                    current_date, turns, analysis_data, handler, classifier,
                    intent_category, entities, model_calls, backend_calls,
                    review_shown, user_choice, response >>

\* run: the prompt is answered with the exit command
PromptExit ==
    /\ pc = "prompt"
    /\ \E line \in UserInputs :
         /\ IsExit(line)
         /\ user_input' = line
    /\ pc' = "done"
    /\ UNCHANGED << historyVars, availVars, parseVars, gatewayVars, mailVars,
                    current_date, turns, analysis_data, handler, classifier,
                    intent_category, entities, model_calls, backend_calls,
                    review_shown, user_choice, response >>

\* run: the prompt is answered with an utterance; the user message is added
\* to the history and _process_command starts
PromptUtterance ==
    /\ pc = "prompt"
    /\ turns < MaxTurns
    /\ \E line \in UserInputs :
         /\ ~ IsExit(line)
         /\ user_input' = line
         /\ messages' = add_message(messages, max_history, "user", line)
         /\ added' = Append(added, Message("user", line))
    /\ turns' = turns + 1
    /\ pc' = "analyze"
    /\ UNCHANGED << max_history, availVars, parseVars, gatewayVars, mailVars,
                    current_date, analysis_data, handler, classifier,
                    intent_category, entities, model_calls, backend_calls,
                    review_shown, user_choice, response >>

\* run: KeyboardInterrupt while a console prompt is waiting (the input prompt
\* of run, or the confirmation prompt of send_email, which no handler catches)
KeyboardInterrupt ==
    /\ pc \in { "prompt", "send_confirm" }
    /\ pc' = "done"
    /\ UNCHANGED << historyVars, availVars, parseVars, gatewayVars, mailVars,
                    requestVars >>

\* _process_command: the analysis call raises ValueError (content too long)
AnalyzeTooLarge ==
    /\ pc = "analyze"
    /\ model_calls' = Append(model_calls,
           ModelCall("analysis", AnalysisPrompt(user_input), "too_large", << >>))
    /\ Return(<< "ErrorAnalyzingRequest", "ContentTooLong" >>)
    /\ UNCHANGED << historyVars, availVars, parseVars, gatewayVars, mailVars,
                    current_date, user_input, turns, analysis_data, handler,
                    classifier, intent_category, entities, backend_calls,
                    review_shown, user_choice >>

\* a dispatcher in which a provider error of the analysis call leaves the loop
AnalyzeErrorEndsSession ==
    /\ pc = "analyze"
    /\ model_calls' = Append(model_calls,
           ModelCall("analysis", AnalysisPrompt(user_input), "error", << >>))
    /\ pc' = "done"
    /\ UNCHANGED << historyVars, availVars, parseVars, gatewayVars, mailVars,
                    current_date, user_input, turns, analysis_data, handler,
                    classifier, intent_category, entities, backend_calls,
                    review_shown, user_choice, response >>

\* _process_command: the analysis call raises another provider error, which
\* only the outermost handler catches
AnalyzeError ==
    /\ pc = "analyze"
    /\ model_calls' = Append(model_calls,
           ModelCall("analysis", AnalysisPrompt(user_input), "error", << >>))
    /\ Return(<< "ErrorProcessingCommand" >>)
    /\ UNCHANGED << historyVars, availVars, parseVars, gatewayVars, mailVars,
                    current_date, user_input, turns, analysis_data, handler,
                    classifier, intent_category, entities, backend_calls,
                    review_shown, user_choice >>

\* the replies to the analysis prompt that do not hold JSON: a lone brace,
\* a lone brace inside a fence, and an empty reply
MalformedReplies ==
    { t \in { << "{" >>, FenceOpen \o << "{", " " >> \o FenceClose, << >> } :
        json_loads(clean(t)) = JSONDecodeError }

\* a dispatcher that asks the model again when the analysis does not parse
AnalyzeMalformedAsksAgain ==
    /\ pc = "analyze"
    /\ \E text \in MalformedReplies :
         model_calls' = Append(model_calls,
             ModelCall("analysis", AnalysisPrompt(user_input), "text", text))
    /\ pc' = "general"
    /\ UNCHANGED << historyVars, availVars, parseVars, gatewayVars, mailVars,
                    current_date, user_input, turns, analysis_data, handler,
                    classifier, intent_category, entities, backend_calls,
                    review_shown, user_choice, response >>

\* _process_command: the cleaned analysis text is not JSON
\* (json.JSONDecodeError)
AnalyzeMalformed ==
    /\ pc = "analyze"
    /\ \E text \in MalformedReplies :
         model_calls' = Append(model_calls,
             ModelCall("analysis", AnalysisPrompt(user_input), "text", text))
    /\ Return(<< "PleaseRephrase" >>)
    /\ UNCHANGED << historyVars, availVars, parseVars, gatewayVars, mailVars,
                    current_date, user_input, turns, analysis_data, handler,
                    classifier, intent_category, entities, backend_calls,
                    review_shown, user_choice >>

\* _process_command: the analysis text parses to a descriptor
AnalyzeParsed ==
    /\ pc = "analyze"
    /\ \E d \in AgentDescriptors : analysis_data' = d
    /\ model_calls' = Append(model_calls,
           ModelCall("analysis", AnalysisPrompt(user_input), "text",
                     << "json" >>))
    /\ pc' = "route"
    /\ UNCHANGED << historyVars, availVars, parseVars, gatewayVars, mailVars,
                    current_date, user_input, turns, handler, classifier,
                    intent_category, entities, backend_calls, review_shown,
                    user_choice, response >>

\* a dispatcher that tests the calendar keywords before the email keywords
select_handler_calendar_first(intent) ==
    IF AnyIn(calendar_intent_patterns, intent) THEN "calendar"
    ELSE IF AnyIn(email_intent_patterns, intent) THEN "gmail"
    ELSE "general"

\* a dispatcher that sends every request without an email keyword to the
\* calendar handler
select_handler_no_general(intent) ==
    IF AnyIn(email_intent_patterns, intent) THEN "gmail" ELSE "calendar"

\* _process_command: email_match, then calendar_match, then the general answer
select_handler(intent) ==
    IF AnyIn(email_intent_patterns, intent) THEN "gmail"
    ELSE IF AnyIn(calendar_intent_patterns, intent) THEN "calendar"
    ELSE "general"

\* the step a handler goes to for the category its classifier returned
FirstStepOf(category) ==
    CASE category = "summarize"    -> "summarize_fetch"
      [] category = "send"         -> "send_review"
      [] category = "retrieve"     -> "retrieve"
      [] category = "create"       -> "create"
      [] category = "list"         -> "list"
      [] category = "availability" -> "availability"

\* a dispatcher that asks the model for a general answer when the email
\* classifier returns no category
RouteGmailFallsBackToGeneral ==
    /\ pc = "route"
    /\ select_handler(Lower(analysis_data.intent)) = "gmail"
    /\ handler' = "gmail"
    /\ classifier' = Append(classifier, "gmail")
    /\ LET result == detect_gmail_intent(Lower(analysis_data.intent),
                                         analysis_data.parameters)
       IN  /\ intent_category' = result.category
           /\ entities' = result.entities
           /\ pc' = IF result.category = "None"
                    THEN "general"
                    ELSE FirstStepOf(result.category)
    /\ UNCHANGED << historyVars, availVars, parseVars, gatewayVars, mailVars,
                    current_date, user_input, turns, analysis_data,
                    model_calls, backend_calls, review_shown, user_choice,
                    response >>

\* _process_command selects _handle_gmail_action, which classifies
RouteGmail ==
    /\ pc = "route"
    /\ select_handler(Lower(analysis_data.intent)) = "gmail"
    /\ handler' = "gmail"
    /\ classifier' = Append(classifier, "gmail")
    /\ LET result == detect_gmail_intent(Lower(analysis_data.intent),
                                         analysis_data.parameters)
       IN  /\ intent_category' = result.category
           /\ entities' = result.entities
           /\ IF result.category = "None"
              THEN Return(<< "UnclearEmailIntent" >>)
              ELSE /\ pc' = FirstStepOf(result.category)
                   /\ UNCHANGED response
    /\ UNCHANGED << historyVars, availVars, parseVars, gatewayVars, mailVars,
                    current_date, user_input, turns, analysis_data,
                    model_calls, backend_calls, review_shown, user_choice >>

\* _process_command selects _handle_calendar_action, which classifies
RouteCalendar ==
    /\ pc = "route"
    /\ select_handler(Lower(analysis_data.intent)) = "calendar"
    /\ handler' = "calendar"
    /\ classifier' = Append(classifier, "calendar")
    /\ LET result == detect_calendar_intent(Lower(analysis_data.intent),
                                            analysis_data.parameters)
       IN  /\ intent_category' = result.category
           /\ entities' = result.entities
           /\ IF result.category = "None"
              THEN Return(<< "UnclearCalendarIntent" >>)
              ELSE /\ pc' = FirstStepOf(result.category)
                   /\ UNCHANGED response
    /\ UNCHANGED << historyVars, availVars, parseVars, gatewayVars, mailVars,
                    current_date, user_input, turns, analysis_data,
                    model_calls, backend_calls, review_shown, user_choice >>

\* _process_command: no domain keyword occurs in the intent
RouteGeneral ==
    /\ pc = "route"
    /\ select_handler(Lower(analysis_data.intent)) = "general"
    /\ handler' = "general"
    /\ pc' = "general"
    /\ UNCHANGED << historyVars, availVars, parseVars, gatewayVars, mailVars,
                    current_date, user_input, turns, analysis_data,
                    classifier, intent_category, entities, model_calls,
                    backend_calls, review_shown, user_choice, response >>

\* _process_command: return self._get_ai_response(user_input); an exception
\* of the call is caught by the handler around the parsing block
GeneralAnswer ==
    /\ pc = "general"
    /\ \/ \E text \in ModelTexts :
            /\ model_calls' = Append(model_calls,
                   ModelCall("general", user_input, "text", text))
            /\ Return(<< "ModelText" >> \o text)
       \/ \E failure \in { "too_large", "error" } :
            /\ model_calls' = Append(model_calls,
                   ModelCall("general", user_input, failure, << >>))
            /\ Return(<< "PleaseRephrase" >>)
    /\ UNCHANGED << historyVars, availVars, parseVars, gatewayVars, mailVars,
                    current_date, user_input, turns, analysis_data, handler,
                    classifier, intent_category, entities, backend_calls,
                    review_shown, user_choice >>

\* the message the mail backend lists for the query 'is:unread'
UnreadMessage(i) == [ id |-> i, labelIds |-> { "INBOX", "UNREAD" } ]

\* GmailTools.get_all_emails: the Email built for a listed message
email_of_listed_message(msg) ==
    [ id |-> msg.id, is_read |-> ("UNREAD" \in msg.labelIds) ]

\* summarize_emails: self.tools.gmail.get_all_emails(max_results=count,
\* unread_only=True) raises, returns no email, or returns k emails
SummarizeFetch ==
    /\ pc = "summarize_fetch"
    /\ LET args == [ max_results |-> Get(entities, "count", DefaultEmailCount),
                     unread_only |-> TRUE ]
       IN  \/ /\ backend_calls' = Append(backend_calls,
                     BackendCall("get_all_emails", args, "raise", << >>))
              /\ Return(<< "UnexpectedErrorSummarizingEmails", "BackendError" >>)
           \/ /\ backend_calls' = Append(backend_calls,
                     BackendCall("get_all_emails", args, "ok", << >>))
              /\ Return(<< "ErrorSummarizingEmails", "NoEmailsRetrieved" >>)
           \/ \E k \in 1..MaxEmails :
                /\ backend_calls' = Append(backend_calls,
                       BackendCall("get_all_emails", args, "ok",
                           [ i \in 1..k |->
                               email_of_listed_message(UnreadMessage(i)) ]))
                /\ pc' = "summarize_model"
                /\ UNCHANGED response
    /\ UNCHANGED << historyVars, availVars, parseVars, gatewayVars, mailVars,
                    current_date, user_input, turns, analysis_data, handler,
                    classifier, intent_category, entities, model_calls,
                    review_shown, user_choice >>

\* summarize_emails: EmailSummary(total_emails=len(emails),
\* unread_count=len([e for e in emails if not e.is_read]), summary=summary)
EmailSummary(emails, text) ==
    [ total_emails |-> Len(emails),
      unread_count |-> Cardinality({ i \in DOMAIN emails : ~ emails[i].is_read }),
      summary      |-> text ]

\* _handle_gmail_action: the f-string that renders the summary with its
\* "Total Emails" and "Unread Count" lines
RenderEmailSummary(summary) ==
    << "EmailSummary", ToString(summary.total_emails),
       ToString(summary.unread_count) >> \o summary.summary

\* summarize_emails: the summary call, and the handler's rendering
SummarizeModel ==
    /\ pc = "summarize_model"
    /\ \/ \E text \in ModelTexts :
            /\ model_calls' = Append(model_calls,
                   ModelCall("summary", SummaryPrompt, "text", text))
            /\ Return(RenderEmailSummary(EmailSummary(
                   backend_calls[Len(backend_calls)].result, text)))
       \/ /\ model_calls' = Append(model_calls,
                 ModelCall("summary", SummaryPrompt, "too_large", << >>))
          /\ Return(<< "ErrorSummarizingEmails", "ContentTooLong" >>)
       \/ /\ model_calls' = Append(model_calls,
                 ModelCall("summary", SummaryPrompt, "error", << >>))
          /\ Return(<< "UnexpectedErrorSummarizingEmails", "ModelError" >>)
    /\ UNCHANGED << historyVars, availVars, parseVars, gatewayVars, mailVars,
                    current_date, user_input, turns, analysis_data, handler,
                    classifier, intent_category, entities, backend_calls,
                    review_shown, user_choice >>

\* the texts the language model may answer the review prompt with
ReviewTexts == { << "appropriate to send" >>, << "not appropriate to send" >> }

\* send_email: the review call; its text is printed, or its failure makes
\* send_email return False
SendReview ==
    /\ pc = "send_review"
    /\ LET prompt == ReviewPrompt(entities["to"], entities["subject"],
                                  entities["content"])
       IN  \/ \E text \in ReviewTexts :
                /\ model_calls' = Append(model_calls,
                       ModelCall("review", prompt, "text", text))
                /\ review_shown' = TRUE
                /\ pc' = "send_confirm"
                /\ UNCHANGED response
           \/ \E failure \in { "too_large", "error" } :
                /\ model_calls' = Append(model_calls,
                       ModelCall("review", prompt, failure, << >>))
                /\ Return(<< "FailedToSendEmail" >>)
                /\ UNCHANGED review_shown
    /\ UNCHANGED << historyVars, availVars, parseVars, gatewayVars, mailVars,
                    current_date, user_input, turns, analysis_data, handler,
                    classifier, intent_category, entities, backend_calls,
                    user_choice >>

\* a send flow that takes every answer for a confirmation
send_confirmed_by_any_answer(choice) == TRUE

\* send_email: if user_choice == "y"
send_confirmed(choice) == choice = "y"

\* send_email: Prompt.ask(..., choices=["y", "n"]) and the branch on it
SendConfirm ==
    /\ pc = "send_confirm"
    /\ \E choice \in { "y", "n" } :
         /\ user_choice' = choice
         /\ IF send_confirmed(choice)
            THEN /\ pc' = "send_backend"
                 /\ UNCHANGED response
            ELSE Return(<< "FailedToSendEmail" >>)
    /\ UNCHANGED << historyVars, availVars, parseVars, gatewayVars, mailVars,
                    current_date, user_input, turns, analysis_data, handler,
                    classifier, intent_category, entities, model_calls,
                    backend_calls, review_shown >>

\* a send flow that calls create_email a second time when the first call
\* failed
SendBackendTriesTwice ==
    /\ pc = "send_backend"
    /\ LET args == [ to |-> entities["to"], subject |-> entities["subject"],
                     content |-> entities["content"] ]
       IN  \/ /\ backend_calls' = Append(backend_calls,
                     BackendCall("create_email", args, "ok", << >>))
              /\ Return(<< "EmailSentSuccessfully" >>)
           \/ /\ backend_calls' = backend_calls \o
                     << BackendCall("create_email", args, "failed", << >>),
                        BackendCall("create_email", args, "ok", << >>) >>
              /\ Return(<< "EmailSentSuccessfully" >>)
    /\ UNCHANGED << historyVars, availVars, parseVars, gatewayVars, mailVars,
                    current_date, user_input, turns, analysis_data, handler,
                    classifier, intent_category, entities, model_calls,
                    review_shown, user_choice >>

\* send_email: self.tools.gmail.create_email(to, subject, content), which
\* returns True, or False when the provider raised
SendBackend ==
    /\ pc = "send_backend"
    /\ LET args == [ to |-> entities["to"], subject |-> entities["subject"],
                     content |-> entities["content"] ]
       IN  \/ /\ backend_calls' = Append(backend_calls,
                     BackendCall("create_email", args, "ok", << >>))
              /\ Return(<< "EmailSentSuccessfully" >>)
           \/ /\ backend_calls' = Append(backend_calls,
                     BackendCall("create_email", args, "failed", << >>))
              /\ Return(<< "FailedToSendEmail" >>)
    /\ UNCHANGED << historyVars, availVars, parseVars, gatewayVars, mailVars,
                    current_date, user_input, turns, analysis_data, handler,
                    classifier, intent_category, entities, model_calls,
                    review_shown, user_choice >>

\* get_specific_email: self.tools.gmail.get_email(email_id), which returns
\* the Email, or None when the provider raised
RetrieveEmail ==
    /\ pc = "retrieve"
    /\ LET args == [ email_id |-> entities["email_id"] ]
       IN  \/ /\ backend_calls' = Append(backend_calls,
                     BackendCall("get_email", args, "ok", << >>))
              /\ Return(<< "EmailDetails" >>)
           \/ /\ backend_calls' = Append(backend_calls,
                     BackendCall("get_email", args, "failed", << >>))
              /\ Return(<< "EmailNotFound" >>)
    /\ UNCHANGED << historyVars, availVars, parseVars, gatewayVars, mailVars,
                    current_date, user_input, turns, analysis_data, handler,
                    classifier, intent_category, entities, model_calls,
                    review_shown, user_choice >>

\* _handle_calendar_action, create: self.tools.calendar.create_event(...)
CreateEvent ==
    /\ pc = "create"
    /\ LET args == [ summary          |-> entities["event_title"],
                     description      |-> Get(analysis_data.parameters,
                                              "event_description", ""),
                     start_date       |-> entities["start_date"],
                     duration_minutes |-> Get(entities, "duration",
                                              DefaultDuration),
                     attendees        |-> Get(entities, "attendees", << >>),
                     location         |-> Get(entities, "location", "None") ]
       IN  \/ /\ backend_calls' = Append(backend_calls,
                     BackendCall("create_event", args, "ok", << >>))
              /\ Return(<< "EventCreated" >>)
           \/ /\ backend_calls' = Append(backend_calls,
                     BackendCall("create_event", args, "raise", << >>))
              /\ Return(<< "ErrorCreatingEvent" >>)
    /\ UNCHANGED << historyVars, availVars, parseVars, gatewayVars, mailVars,
                    current_date, user_input, turns, analysis_data, handler,
                    classifier, intent_category, entities, model_calls,
                    review_shown, user_choice >>

\* end_date = (current_date + timedelta(days=7)).strftime("%Y-%m-%d")
list_end_default(now) == strftime_date(plus_days(now, DefaultListDays))

\* _handle_calendar_action, list: datetime.now() is read, the absent dates
\* are defaulted, and self.tools.calendar.list_events(...) is called
ListEvents ==
    /\ pc = "list"
    /\ \E now \in Clock :
         LET start_date == IF "start_date" \in DOMAIN entities
                           THEN entities["start_date"]
                           ELSE strftime_date(now)
             end_date   == IF "end_date" \in DOMAIN entities
                           THEN entities["end_date"]
                           ELSE list_end_default(now)
             args == [ start_date  |-> start_date,
                       end_date    |-> end_date,
                       max_results |-> Get(entities, "count", DefaultEventCount) ]
         IN  /\ current_date' = now
             /\ \/ /\ backend_calls' = Append(backend_calls,
                         BackendCall("list_events", args, "ok", << "event" >>))
                   /\ Return(<< "CalendarEvents" >>)
                \/ /\ backend_calls' = Append(backend_calls,
                         BackendCall("list_events", args, "ok", << >>))
                   /\ Return(<< "NoEventsFound" >>)
                \/ /\ backend_calls' = Append(backend_calls,
                         BackendCall("list_events", args, "raise", << >>))
                   /\ Return(<< "ErrorListingEvents" >>)
    /\ UNCHANGED << historyVars, availVars, parseVars, gatewayVars, mailVars,
                    user_input, turns, analysis_data, handler, classifier,
                    intent_category, entities, model_calls, review_shown,
                    user_choice >>

\* _handle_calendar_action, availability:
\* self.tools.calendar.check_availability(...)
CheckAvailability ==
    /\ pc = "availability"
    /\ LET args == [ start_date       |-> entities["start_date"],
                     end_date         |-> entities["end_date"],
                     duration_minutes |-> entities["duration"] ]
       IN  \/ /\ backend_calls' = Append(backend_calls,
                     BackendCall("check_availability", args, "ok", << "slot" >>))
              /\ Return(<< "AvailableSlots" >>)
           \/ /\ backend_calls' = Append(backend_calls,
                     BackendCall("check_availability", args, "ok", << >>))
              /\ Return(<< "NoAvailableSlots" >>)
           \/ /\ backend_calls' = Append(backend_calls,
                     BackendCall("check_availability", args, "raise", << >>))
              /\ Return(<< "ErrorCheckingAvailability" >>)
    /\ UNCHANGED << historyVars, availVars, parseVars, gatewayVars, mailVars,
                    current_date, user_input, turns, analysis_data, handler,
                    classifier, intent_category, entities, model_calls,
                    review_shown, user_choice >>

\* a loop that prints the response without adding it to the history
RespondWithoutHistory ==
    /\ pc = "respond"
    /\ ResetRequest
    /\ pc' = "prompt"
    /\ UNCHANGED << historyVars, availVars, parseVars, gatewayVars, mailVars,
                    turns >>

\* run: the response is added to the history and printed, and the loop goes
\* back to the prompt
Respond ==
    /\ pc = "respond"
    /\ messages' = add_message(messages, max_history, "assistant", response)
    /\ added' = Append(added, Message("assistant", response))
    /\ ResetRequest
    /\ pc' = "prompt"
    /\ UNCHANGED << max_history, availVars, parseVars, gatewayVars, mailVars,
                    turns >>

Next ==
    \/ PromptExit
    \/ PromptUtterance
    \/ KeyboardInterrupt
    \/ AnalyzeTooLarge
    \/ AnalyzeError
    \/ AnalyzeMalformed
    \/ AnalyzeParsed
    \/ RouteGmail
    \/ RouteCalendar
    \/ RouteGeneral
    \/ GeneralAnswer
    \/ SummarizeFetch
    \/ SummarizeModel
    \/ SendReview
    \/ SendConfirm
    \/ SendBackend
    \/ RetrieveEmail
    \/ CreateEvent
    \/ ListEvents
    \/ CheckAvailability
    \/ Respond

Spec == Init /\ [][Next]_vars

-----------------------------------------------------------------------------
(* SpecMail: the two read paths of GmailTools applied to the same message  *)
(* of the mail provider.                                                   *)

\* the labels a message may carry
Labels == { "INBOX", "UNREAD", "IMPORTANT", "STARRED" }

\* the messages the mail provider may hold
BackendMessages == [ id : 1..MaxEmails, labelIds : SUBSET Labels ]

\* GmailTools.get_email: the Email built for the fetched message
email_of_fetched_message(msg) ==
    [ id |-> msg.id, is_read |-> ("UNREAD" \notin msg.labelIds) ]

InitMail ==
    /\ pc = "mail"
    /\ backend_message \in BackendMessages
    /\ listed_email = NoEmail
    /\ fetched_email = NoEmail
    /\ IdleHistory
    /\ IdleRequest
    /\ IdleParse
    /\ IdleGateway
    /\ IdleAvail

\* get_all_emails lists the message and builds its Email
GetAllEmails ==
    /\ pc = "mail"
    /\ listed_email = NoEmail
    /\ listed_email' = email_of_listed_message(backend_message)
    /\ UNCHANGED << pc, historyVars, requestVars, parseVars, gatewayVars,
                    availVars, backend_message, fetched_email >>

\* get_email fetches the message by its id and builds its Email
GetEmail ==
    /\ pc = "mail"
    /\ fetched_email = NoEmail
    /\ fetched_email' = email_of_fetched_message(backend_message)
    /\ UNCHANGED << pc, historyVars, requestVars, parseVars, gatewayVars,
                    availVars, backend_message, listed_email >>

NextMail == GetAllEmails \/ GetEmail

SpecMail == InitMail /\ [][NextMail]_vars
-----------------------------------------------------------------------------
(* SpecAvail: CalendarTools.check_availability on any list of events the   *)
(* calendar backend may return (ordered by start time), a range given with *)
(* explicit times, and a duration.  A time is a number of minutes since    *)
(* midnight of the first day of the range.                                 *)

\* 08:30, 09:30, 10:00, 10:30, 11:00, 12:00, 13:30
TimePoints == { 510, 570, 600, 630, 660, 720, 810 }

EventChoices ==
    { e \in [ start : TimePoints, end : TimePoints ] : e.start < e.end }

IsSortedByStart(evs) ==
    \A i \in 1..(Len(evs) - 1) : evs[i].start <= evs[i + 1].start

EventLists ==
    { evs \in UNION { [ 1..n -> EventChoices ] : n \in 0..MaxEvents } :
        IsSortedByStart(evs) }

Durations == { 30, 60 }

\* 09:00 to 13:00, and 09:30 to 12:00
Ranges == { [ start |-> 540, end |-> 780 ], [ start |-> 570, end |-> 720 ] }

\* list.sort(key=start): a stable sort, written as an insertion sort
InsertByStart(e, sorted) ==
    LET k == Cardinality({ i \in 1..Len(sorted) : sorted[i].start <= e.start })
    IN  SubSeq(sorted, 1, k) \o << e >> \o SubSeq(sorted, k + 1, Len(sorted))

RECURSIVE SortByStart(_)
SortByStart(evs) ==
    IF evs = << >>
    THEN << >>
    ELSE InsertByStart(evs[Len(evs)], SortByStart(SubSeq(evs, 1, Len(evs) - 1)))

\* datetime.strftime("%Y-%m-%d %I:%M %p"): the day, the hour on the 12-hour
\* clock, the minute and AM or PM
strftime(t) ==
    LET hour24 == (t % 1440) \div 60
    IN  [ day      |-> t \div 1440,
          hour     |-> IF hour24 % 12 = 0 THEN 12 ELSE hour24 % 12,
          minute   |-> t % 60,
          meridiem |-> IF hour24 < 12 THEN "AM" ELSE "PM" ]

\* a slot test that asks for more than the duration
slots_in_gap_strict(cursor, limit, duration) ==
    IF (limit - cursor) * 60 > duration * 60
    THEN << [ start |-> strftime(cursor), end |-> strftime(cursor + duration) ] >>
    ELSE << >>

\* if (limit - current_time).total_seconds() >= duration_minutes * 60:
\*     slot_end = current_time + timedelta(minutes=duration_minutes)
\*     if slot_end <= limit: available_slots.append({start, end})
slots_in_gap(cursor, limit, duration) ==
    IF (limit - cursor) * 60 >= duration * 60
    THEN LET slot_end == cursor + duration
         IN  IF slot_end <= limit
             THEN << [ start |-> strftime(cursor), end |-> strftime(slot_end) ] >>
             ELSE << >>
    ELSE << >>

\* a walk that moves the cursor to the event's start plus the duration
cursor_after_start_plus_duration(event, duration) == event.start + duration

\* current_time = event_end
cursor_after(event, duration) == event.end

InitAvail ==
    /\ pc = "avail_start"
    /\ events \in EventLists
    /\ range \in Ranges
    \* events().list(timeMin, timeMax): only events that end after the start
    \* of the range and start before its end are returned
    /\ \A i \in DOMAIN events :
          events[i].end > range.start /\ events[i].start < range.end
    /\ duration_minutes \in Durations
    /\ current_time = 0
    /\ position = 0
    /\ available_slots = << >>
    /\ IdleHistory
    /\ IdleRequest
    /\ IdleParse
    /\ IdleGateway
    /\ IdleMail

\* check_availability up to the loop: the events are sorted by start time and
\* the cursor is set to the start of the range
AvailStart ==
    /\ pc = "avail_start"
    /\ events' = SortByStart(events)
    /\ current_time' = range.start
    /\ position' = 1
    /\ available_slots' = << >>
    /\ pc' = "avail_loop"
    /\ UNCHANGED << historyVars, requestVars, parseVars, gatewayVars,
                    mailVars, range, duration_minutes >>

\* one iteration of `for event in events`
AvailEvent ==
    /\ pc = "avail_loop"
    /\ position <= Len(events)
    /\ available_slots' = available_slots \o
           slots_in_gap(current_time, events[position].start, duration_minutes)
    /\ current_time' = cursor_after(events[position], duration_minutes)
    /\ position' = position + 1
    /\ UNCHANGED << pc, historyVars, requestVars, parseVars, gatewayVars,
                    mailVars, events, range, duration_minutes >>

\* after the loop: the test between the cursor and the end of the range
AvailTail ==
    /\ pc = "avail_loop"
    /\ position > Len(events)
    /\ available_slots' = available_slots \o
           slots_in_gap(current_time, range.end, duration_minutes)
    /\ pc' = "avail_done"
    /\ UNCHANGED << historyVars, requestVars, parseVars, gatewayVars,
                    mailVars, events, range, duration_minutes, current_time,
                    position >>

NextAvail == AvailStart \/ AvailEvent \/ AvailTail

SpecAvail == InitAvail /\ [][NextAvail]_vars

-----------------------------------------------------------------------------
(* Definitions the properties below are stated with.                       *)

Min(a, b) == IF a <= b THEN a ELSE b

\* the string the characters spell, for the intents the witnesses name
SendAndFetchMail ==
    <<"s","e","n","d"," ","a","n","d"," ","f","e","t","c","h"," ","m","a","i","l">>
WhenAmIFree ==
    <<"w","h","e","n"," ","a","m"," ","i"," ","f","r","e","e">>
ReviewAndSendEmail ==
    <<"r","e","v","i","e","w"," ","a","n","d"," ","s","e","n","d"," ","e","m","a","i","l">>

\* the required entities of each category, as the specification lists them
RequiredEntities ==
    [ summarize    |-> {},
      send         |-> {"to", "subject", "content"},
      retrieve     |-> {"email_id"},
      create       |-> {"event_title", "start_date"},
      list         |-> {},
      availability |-> {"start_date", "end_date", "duration"} ]

\* the table of the classifier that ran in SpecClassify
TableRun ==
    IF classifier = << "gmail" >> THEN gmail_intent_categories
                                  ELSE calendar_intent_categories

\* the positions, in table order, of the categories whose indicators hit
HitPositions(table, intent) ==
    { i \in 1..Len(table.order) :
        \E k \in table.indicators[table.order[i]] : IsSubstring(k, Lower(intent)) }

\* HitPositions of every intent, under each classifier's table
HitsOfIntents ==
    [ i \in Intents |->
        [ gmail    |-> HitPositions(gmail_intent_categories, i),
          calendar |-> HitPositions(calendar_intent_categories, i) ] ]

\* the hit positions of the intent that was classified in SpecClassify
HitsRun ==
    IF classifier = << "gmail" >> THEN HitsOfIntents[analysis_data.intent].gmail
                                  ELSE HitsOfIntents[analysis_data.intent].calendar

\* the first, in table order, of the categories at the positions `hits`
FirstOf(table, hits) ==
    table.order[CHOOSE i \in hits : \A j \in hits : i <= j]

PositionOf(table, category) ==
    CHOOSE i \in 1..Len(table.order) : table.order[i] = category

-----------------------------------------------------------------------------
(* Properties of ConversationHistory, checked under SpecHistory.           *)

\* C1: after any sequence of add_message calls on a history that started
\* empty, the number of stored messages is at most max_history.
C1_HistoryBounded ==
    pc = "history" => Len(messages) <= max_history

\* C1 witness: more messages were added than the history holds, and the
\* history is full.
C1_Witness ==
    /\ pc = "history"
    /\ Len(added) > max_history
    /\ Len(messages) = max_history

\* C2: eviction is FIFO: after n add_message calls the stored messages are
\* exactly the last min(n, max_history) messages added, in the order added.
C2_FifoEviction ==
    pc = "history" =>
        LET n == Len(added)
            kept == Min(n, max_history)
        IN  messages = SubSeq(added, n - kept + 1, n)

\* C2 witness: at least two messages were evicted from a history holding
\* two or more messages that differ from one another.
C2_Witness ==
    /\ pc = "history"
    /\ max_history >= 2
    /\ Len(added) >= max_history + 2
    /\ messages[1] # messages[2]
    /\ added[1] # messages[1]

-----------------------------------------------------------------------------
(* Properties of the classifiers, checked under SpecClassify.              *)

\* C5: required-field law: a classifier never returns a category when the
\* parameters lack one of that category's required entities; an availability
\* request (availability is the category the calendar classifier decides on)
\* with start_date and end_date but no duration is unclassified.
C5_RequiredFieldLaw ==
    pc = "classified" =>
        /\ intent_category # "None" =>
               RequiredEntities[intent_category]
                   \subseteq DOMAIN analysis_data.parameters
        /\ ( /\ classifier = << "calendar" >>
             /\ "duration" \notin DOMAIN analysis_data.parameters )
           => /\ intent_category # "availability"
              /\ ( /\ HitsRun # {}
                   /\ FirstOf(calendar_intent_categories, HitsRun)
                          = "availability" )
                 => intent_category = "None"

\* C5 witness: "when am i free" with start_date and end_date and no duration
\* went through the calendar classifier and is unclassified.
C5_Witness ==
    /\ pc = "classified"
    /\ classifier = << "calendar" >>
    /\ analysis_data.intent = WhenAmIFree
    /\ DOMAIN analysis_data.parameters = { "start_date", "end_date" }
    /\ intent_category = "None"

\* C6: no fall-through: if the first category in table order whose indicators
\* hit the intent lacks a required entity, no category is returned, also when
\* a later category's indicators hit and its required entities are present.
C6_NoFallThrough ==
    pc = "classified" =>
        ( ( /\ HitsRun # {}
            /\ ~ ( RequiredEntities[FirstOf(TableRun, HitsRun)]
                     \subseteq DOMAIN analysis_data.parameters ) )
          => intent_category = "None" )

\* C6 witness: "send and fetch mail" hits send first and retrieve later; the
\* parameters hold email_id (all retrieve requires) but no recipient, and the
\* email classifier returned no category.
C6_Witness ==
    /\ pc = "classified"
    /\ classifier = << "gmail" >>
    /\ analysis_data.intent = SendAndFetchMail
    /\ HitsRun = { 2, 3 }
    /\ "email_id" \in DOMAIN analysis_data.parameters
    /\ "to" \notin DOMAIN analysis_data.parameters
    /\ intent_category = "None"

\* C7: first match in table order: the classifier returns the first category
\* whose indicators hit when that category's required entities are present,
\* and a category is returned only if no earlier category's indicator occurs
\* in the intent.
C7_FirstMatchInTableOrder ==
    pc = "classified" =>
        /\ ( /\ HitsRun # {}
             /\ RequiredEntities[FirstOf(TableRun, HitsRun)]
                   \subseteq DOMAIN analysis_data.parameters )
           => intent_category = FirstOf(TableRun, HitsRun)
        /\ intent_category # "None" =>
               /\ intent_category \in
                      { TableRun.order[i] : i \in 1..Len(TableRun.order) }
               /\ \A j \in HitsRun : PositionOf(TableRun, intent_category) <= j

\* C7 witness: "review and send email" hits summarize, send and retrieve; the
\* parameters satisfy send, and the email classifier returned summarize.
C7_Witness ==
    /\ pc = "classified"
    /\ classifier = << "gmail" >>
    /\ analysis_data.intent = ReviewAndSendEmail
    /\ HitsRun = { 1, 2, 3 }
    /\ { "to", "subject", "content" } \subseteq DOMAIN analysis_data.parameters
    /\ intent_category = "summarize"

-----------------------------------------------------------------------------
(* Properties of the free-slot search, checked under SpecAvail.            *)

\* the events are pairwise non-overlapping and lie inside the range
DisjointInRange(evs, rng) ==
    /\ \A i \in 1..Len(evs) : rng.start <= evs[i].start /\ evs[i].end <= rng.end
    /\ \A i \in 1..(Len(evs) - 1) : evs[i].end <= evs[i + 1].start

\* the gaps of a start-sorted list of disjoint events: range start to first
\* event, between consecutive events, last event to range end
GapsOf(evs, rng) ==
    [ i \in 1..(Len(evs) + 1) |->
        [ from |-> IF i = 1 THEN rng.start ELSE evs[i - 1].end,
          to   |-> IF i = Len(evs) + 1 THEN rng.end ELSE evs[i].start ] ]

\* the time of day t minutes after midnight, as the slots render it
ClockTime(t) ==
    [ day      |-> 0,
      hour     |-> CHOOSE h \in 1..12 : (h - (t \div 60)) % 12 = 0,
      minute   |-> t - 60 * (t \div 60),
      meridiem |-> IF t < 720 THEN "AM" ELSE "PM" ]

\* one slot [from, from + duration] for each gap at least duration long
RECURSIVE SlotsOfGaps(_, _)
SlotsOfGaps(gaps, duration) ==
    IF gaps = << >>
    THEN << >>
    ELSE ( IF gaps[1].to - gaps[1].from >= duration
           THEN << [ start |-> ClockTime(gaps[1].from),
                     end   |-> ClockTime(gaps[1].from + duration) ] >>
           ELSE << >> )
         \o SlotsOfGaps(Tail(gaps), duration)

\* C10: for start-sorted, pairwise non-overlapping events inside the range,
\* check_availability returns, in order, exactly one slot [c, c + duration]
\* for each gap of length at least duration, c the gap's start, and none for
\* a shorter gap; events 10:00-10:30 and 11:00-12:00 in 09:00-13:00 with
\* duration 30 give 09:00-09:30, 10:30-11:00, 12:00-12:30.
C10_FreeSlots ==
    ( pc = "avail_done" /\ DisjointInRange(events, range) ) =>
        /\ available_slots = SlotsOfGaps(GapsOf(events, range), duration_minutes)
        /\ ( /\ events = << [ start |-> 600, end |-> 630 ],
                            [ start |-> 660, end |-> 720 ] >>
             /\ range = [ start |-> 540, end |-> 780 ]
             /\ duration_minutes = 30 )
           => available_slots =
                << [ start |-> [ day |-> 0, hour |-> 9, minute |-> 0,
                                 meridiem |-> "AM" ],
                     end   |-> [ day |-> 0, hour |-> 9, minute |-> 30,
                                 meridiem |-> "AM" ] ],
                   [ start |-> [ day |-> 0, hour |-> 10, minute |-> 30,
                                 meridiem |-> "AM" ],
                     end   |-> [ day |-> 0, hour |-> 11, minute |-> 0,
                                 meridiem |-> "AM" ] ],
                   [ start |-> [ day |-> 0, hour |-> 12, minute |-> 0,
                                 meridiem |-> "PM" ],
                     end   |-> [ day |-> 0, hour |-> 12, minute |-> 30,
                                 meridiem |-> "PM" ] ] >>

\* C10 witness: the search has finished on the events 10:00-10:30 and
\* 11:00-12:00 with duration 30 and has found three slots.
C10_Witness ==
    /\ pc = "avail_done"
    /\ events = << [ start |-> 600, end |-> 630 ], [ start |-> 660, end |-> 720 ] >>
    /\ range = [ start |-> 540, end |-> 780 ]
    /\ duration_minutes = 30
    /\ DisjointInRange(events, range)
    /\ Len(available_slots) = 3

-----------------------------------------------------------------------------
(* Properties of the dispatch pipeline, checked under Spec.                *)

SendMeetingInvite ==
    <<"s","e","n","d"," ","m","e","e","t","i","n","g"," ","i","n","v","i","t","e">>
TellAJoke ==
    <<"t","e","l","l"," ","a"," ","j","o","k","e">>

\* for each intent of the descriptors: does an email-domain keyword, and does
\* a calendar-domain keyword, occur in the lower-cased intent
DomainKeywords ==
    [ i \in AgentIntents |->
        [ email    |-> \E k \in email_intent_patterns : IsSubstring(k, Lower(i)),
          calendar |-> \E k \in calendar_intent_patterns : IsSubstring(k, Lower(i)) ] ]

\* the operations of the request that went to the backend under this name
CallsOf(op) == { i \in DOMAIN backend_calls : backend_calls[i].op = op }

CalendarOps == { "create_event", "list_events", "check_availability" }

\* the templates the handlers render for an error or a failure
FailureTemplates ==
    { "ErrorAnalyzingRequest", "PleaseRephrase", "ErrorProcessingCommand",
      "ErrorSummarizingEmails", "UnexpectedErrorSummarizingEmails",
      "FailedToSendEmail", "ErrorSendingEmail", "ErrorCreatingEvent",
      "FailedToCreateEvent", "ErrorListingEvents", "ErrorCheckingAvailability" }

\* C3: the backend send operation executes only after the review of the
\* candidate {to, subject, content} was obtained and shown and the user then
\* answered "y"; with answer "n", or when the review call fails, the send
\* operation is never invoked, whatever the review says.
C3_SendOnlyAfterConfirmation ==
    LET sends   == CallsOf("create_email")
        reviews == { j \in DOMAIN model_calls : model_calls[j].purpose = "review" }
    IN  /\ \A i \in sends :
              /\ review_shown
              /\ user_choice = "y"
              /\ \E j \in reviews :
                   /\ model_calls[j].outcome = "text"
                   /\ model_calls[j].input =
                          ReviewPrompt(backend_calls[i].args.to,
                                       backend_calls[i].args.subject,
                                       backend_calls[i].args.content)
        /\ user_choice = "n" => sends = {}
        /\ ( \E j \in reviews : model_calls[j].outcome # "text" ) =>
               /\ sends = {}
               /\ ~ review_shown
               /\ user_choice = "none"

\* C3 witness: a request whose review was shown and answered "y" has invoked
\* the backend send operation.
C3_Witness ==
    /\ pc = "respond"
    /\ review_shown
    /\ user_choice = "y"
    /\ CallsOf("create_email") # {}
    /\ response = << "EmailSentSuccessfully" >>

\* C4: when the user answers the send confirmation negatively, the dispatcher
\* reports a neutral cancellation outcome, not an error or failure outcome.
C4_CancellationIsNeutral ==
    ( pc = "respond" /\ user_choice = "n" ) => response[1] \notin FailureTemplates

\* C8: domain precedence: when the intent contains an email keyword and a
\* calendar keyword the email handler is selected and the calendar handler is
\* not invoked; the calendar handler is invoked only when no email keyword
\* occurs.
C8_DomainPrecedence ==
    handler # "none" =>
        LET kw == DomainKeywords[analysis_data.intent]
            calendarInvoked ==
                \/ handler = "calendar"
                \/ \E i \in DOMAIN classifier : classifier[i] = "calendar"
                \/ \E op \in CalendarOps : CallsOf(op) # {}
        IN  /\ ( kw.email /\ kw.calendar ) =>
                   /\ handler = "gmail"
                   /\ ~ calendarInvoked
            /\ calendarInvoked => ~ kw.email

\* C8 witness: "send meeting invite" holds the email keyword "send" and the
\* calendar keyword "meeting", and its request was handled by the email
\* handler.
C8_Witness ==
    /\ pc = "respond"
    /\ analysis_data.intent = SendMeetingInvite
    /\ DomainKeywords[analysis_data.intent].email
    /\ DomainKeywords[analysis_data.intent].calendar
    /\ handler = "gmail"

\* C9: when the parsed intent holds neither an email nor a calendar keyword,
\* the dispatcher answers by a second Model Gateway call on the raw user input
\* and returns its text; no classifier runs and no backend operation is
\* invoked for the request.
C9_GeneralFallback ==
    ( /\ analysis_data.intent # << >>
      /\ pc # "route"
      /\ ~ DomainKeywords[analysis_data.intent].email
      /\ ~ DomainKeywords[analysis_data.intent].calendar )
    => /\ handler = "general"
       /\ classifier = << >>
       /\ backend_calls = << >>
       /\ pc = "general" => Len(model_calls) = 1
       /\ pc = "respond" =>
            /\ Len(model_calls) = 2
            /\ model_calls[2].purpose = "general"
            /\ model_calls[2].input = user_input
            /\ model_calls[2].outcome = "text" =>
                   response = << "ModelText" >> \o model_calls[2].reply

\* C9 witness: "tell a joke" was answered with the text of the second call.
C9_Witness ==
    /\ pc = "respond"
    /\ analysis_data.intent = TellAJoke
    /\ handler = "general"
    /\ Len(model_calls) = 2
    /\ model_calls[2].outcome = "text"
    /\ response = << "ModelText" >> \o model_calls[2].reply

-----------------------------------------------------------------------------
(* Further properties of the free-slot walk, checked under SpecAvail.       *)

\* C11: cursor monotonicity in the free-slot walk: for every start-sorted
\* event list, overlapping and nested events included, the cursor never moves
\* backward: its value after processing an event is greater than or equal to
\* its value before.
C11_CursorNeverMovesBackward ==
    [][ AvailEvent => current_time' >= current_time ]_vars

-----------------------------------------------------------------------------
(* Further properties of the dispatch pipeline, checked under Spec.         *)

\* C12: summarizing when the mail backend returns k unread emails (k >= 1)
\* yields an EmailSummary with total_emails = k and unread_count = k and the
\* model's summary text as its summary field.
C12_SummaryCountsUnread ==
    ( /\ pc = "respond"
      /\ response[1] = "EmailSummary" )
    => LET k    == Len(backend_calls[1].result)
           text == model_calls[Len(model_calls)].reply
       IN  /\ k >= 1
           /\ response = RenderEmailSummary(
                  [ total_emails |-> k, unread_count |-> k, summary |-> text ])

\* for each Backend Adapter operation and each of its arguments: the entity
\* the argument is taken from ("" when it is taken from none)
EntityOfArgument ==
    [ get_all_emails     |-> [ max_results |-> "count", unread_only |-> "" ],
      create_email       |-> [ to |-> "to", subject |-> "subject",
                               content |-> "content" ],
      get_email          |-> [ email_id |-> "email_id" ],
      create_event       |-> [ summary |-> "event_title",
                               description |-> "event_description",
                               start_date |-> "start_date",
                               duration_minutes |-> "duration",
                               attendees |-> "attendees",
                               location |-> "location" ],
      list_events        |-> [ start_date |-> "start_date",
                               end_date |-> "end_date",
                               max_results |-> "count" ],
      check_availability |-> [ start_date |-> "start_date",
                               end_date |-> "end_date",
                               duration_minutes |-> "duration" ] ]

\* the fixed defaults of an argument of a call (none for a required entity)
DefaultsOfArgument(call, a) ==
    CASE call.op = "get_all_emails" /\ a = "max_results" -> { DefaultEmailCount }
      [] call.op = "get_all_emails" /\ a = "unread_only" -> { TRUE }
      [] call.op = "create_event" /\ a = "description" -> { "" }
      [] call.op = "create_event" /\ a = "duration_minutes" -> { DefaultDuration }
      [] call.op = "create_event" /\ a = "attendees" -> { << >> }
      [] call.op = "create_event" /\ a = "location" -> { "None" }
      [] call.op = "list_events" /\ a = "start_date" ->
             { strftime_date(current_date) }
      [] call.op = "list_events" /\ a = "end_date" ->
             { strftime_date(plus_days(current_date, DefaultListDays)),
               call.args.start_date + DefaultListDays }
      [] call.op = "list_events" /\ a = "max_results" -> { DefaultEventCount }
      [] OTHER -> {}

\* C13: every value passed as an argument to a Backend Adapter operation is
\* either taken from the classifier's projected and validated entities of the
\* matched category or is a fixed default; no argument is read directly from
\* the raw parameters mapping of the descriptor.
C13_OnlyValidatedArguments ==
    \A i \in DOMAIN backend_calls :
        LET call == backend_calls[i]
        IN  \A a \in DOMAIN call.args :
                LET key == EntityOfArgument[call.op][a]
                IN  IF key \in DOMAIN entities
                    THEN call.args[a] = entities[key]
                    ELSE call.args[a] \in DefaultsOfArgument(call, a)

\* C14: event-listing date defaults: when start_date is absent the backend is
\* called with start = now; when end_date is absent the backend is called with
\* end = 7 days after the start actually used, so a supplied start date S with
\* no end date gives end = S + 7 days.
C14_ListDateDefaults ==
    \A i \in CallsOf("list_events") :
        LET args == backend_calls[i].args
        IN  /\ "start_date" \notin DOMAIN entities =>
                   args.start_date = strftime_date(current_date)
            /\ "end_date" \notin DOMAIN entities =>
                   args.end_date = args.start_date + DefaultListDays

\* the error sentences that name the failing operation
ErrorSentencesOf ==
    [ get_all_emails     |-> { "ErrorSummarizingEmails",
                               "UnexpectedErrorSummarizingEmails" },
      create_email       |-> { "FailedToSendEmail", "ErrorSendingEmail" },
      get_email          |-> { "ErrorRetrievingEmail" },
      create_event       |-> { "ErrorCreatingEvent", "FailedToCreateEvent" },
      list_events        |-> { "ErrorListingEvents" },
      check_availability |-> { "ErrorCheckingAvailability" } ]

\* C15: backend failure handling: for every category, if the Backend Adapter
\* operation raises an exception during execution, the dispatcher does not
\* raise and returns an error sentence naming the failing operation, not a
\* success, not-found or other non-error outcome.
C15_BackendFailureIsReportedAsError ==
    \A i \in DOMAIN backend_calls :
        backend_calls[i].outcome \in { "raise", "failed" } =>
            /\ pc = "respond"
            /\ response[1] \in ErrorSentencesOf[backend_calls[i].op]

\* the step made a Model Gateway call or a Backend Adapter call that failed
FailedCallStep ==
    \/ /\ Len(model_calls') = Len(model_calls) + 1
       /\ model_calls'[Len(model_calls')].outcome # "text"
    \/ /\ Len(backend_calls') = Len(backend_calls) + 1
       /\ backend_calls'[Len(backend_calls')].outcome \in { "raise", "failed" }

\* C16: session continuity: no failure of a model call or of a backend call
\* ends the session loop; after any such failure the loop renders a message
\* and accepts the next input, and the loop terminates only on the exit
\* command or a keyboard interrupt.
C16_SessionContinuity ==
    [][ /\ FailedCallStep => ( pc' = "respond" /\ response' # << >> )
        /\ pc = "respond" => ( pc' = "prompt" /\ added' # added )
        /\ ( pc # "done" /\ pc' = "done" ) =>
               \/ pc = "prompt" /\ IsExit(user_input')
               \/ /\ pc \in { "prompt", "send_confirm" }
                  /\ UNCHANGED << historyVars, requestVars >> ]_vars

\* C16 witness: the first request ended with an error sentence, and the loop
\* has accepted a second utterance.
C16_Witness ==
    /\ pc = "analyze"
    /\ turns = 2
    /\ Len(added) = 3
    /\ added[2].role = "assistant"
    /\ added[2].content[1] \in FailureTemplates

\* C17: malformed analysis is terminal: when the model's analysis text is not
\* parseable JSON after code-fence stripping, the request ends with the fixed
\* please-rephrase message, with no second Model Gateway call, no
\* classification and no Backend Adapter operation.
C17_MalformedAnalysisIsTerminal ==
    ( /\ Len(model_calls) >= 1
      /\ model_calls[1].outcome = "text"
      /\ model_calls[1].reply \in MalformedReplies )
    => /\ pc = "respond"
       /\ response = << "PleaseRephrase" >>
       /\ Len(model_calls) = 1
       /\ analysis_data = NoDescriptor
       /\ handler = "none"
       /\ classifier = << >>
       /\ backend_calls = << >>

\* C17 witness: the analysis reply was a lone brace inside a fence, and the
\* request ended with the please-rephrase message.
C17_Witness ==
    /\ pc = "respond"
    /\ Len(model_calls) = 1
    /\ model_calls[1].reply = FenceOpen \o << "{", " " >> \o FenceClose
    /\ json_loads(clean(model_calls[1].reply)) = JSONDecodeError
    /\ response = << "PleaseRephrase" >>

\* the control points at which an utterance is being processed
Processing == { "analyze", "route", "general", "summarize_fetch",
                "summarize_model", "send_review", "send_confirm",
                "send_backend", "retrieve", "create", "list", "availability",
                "respond" }

\* C19: every processed (non-exit) utterance adds to the conversation history
\* exactly one user message holding the input and exactly one assistant
\* message holding the rendered response, the user message before the
\* assistant message, whether the request succeeded, failed or was cancelled.
C19_OneUserOneAssistantMessage ==
    /\ [] ( /\ \A i \in DOMAIN added :
                 added[i].role = IF i % 2 = 1 THEN "user" ELSE "assistant"
            /\ pc = "prompt" => Len(added) = 2 * turns
            /\ pc \in Processing =>
                 /\ Len(added) = 2 * turns - 1
                 /\ added[Len(added)] = Message("user", user_input)
                 /\ ~ IsExit(user_input) )
    /\ [][ pc = "respond" =>
             /\ pc' = "prompt"
             /\ added' = Append(added, Message("assistant", response)) ]_vars

\* C19 witness: two utterances were processed, the first ended in a failure
\* sentence and the second in a created event, and the history holds the two
\* inputs and the two responses in turn.
C19_Witness ==
    /\ pc = "prompt"
    /\ turns = 2
    /\ Len(added) = 4
    /\ messages = added
    /\ added[1] = Message("user", << "h", "i" >>)
    /\ added[2] = Message("assistant", << "FailedToSendEmail" >>)
    /\ added[3] = Message("user", << "h", "i" >>)
    /\ added[4] = Message("assistant", << "EventCreated" >>)

\* the messages a history of the given size keeps of those added
KeptOf(msgs, maxh) ==
    SubSeq(msgs, Len(msgs) - Min(Len(msgs), maxh) + 1, Len(msgs))

\* C20: within one turn the history update is the last pipeline step: no
\* message of the turn is added to the conversation history before that
\* turn's model call, classification, execution and formatting have
\* completed, so the history submitted to the model during a turn holds only
\* messages of earlier turns.
C20_HistoryUpdateIsLastStep ==
    pc \in Processing =>
        LET earlier == SubSeq(added, 1, 2 * (turns - 1))
        IN  /\ messages = KeptOf(earlier, max_history)
            /\ \A j \in DOMAIN model_calls :
                   model_calls[j].history = KeptOf(earlier, max_history)
-----------------------------------------------------------------------------
(* Properties of the cleaning of the analysis text, checked under          *)
(* SpecFence.                                                               *)

\* the fences with a leading ```json and a trailing ```
FullFences == { f \in Fences : startswith(f.open, FenceOpen)
                               /\ endswith(f.close, FenceClose) }

\* C18: JSON-fence stripping: for every JSON text J, the cleaning step applied
\* to J wrapped in a leading ```json fence and a trailing ``` fence yields the
\* same text to parse as the cleaning step applied to J alone, so both parse
\* to the same descriptor.
C18_FenceStripping ==
    ( /\ pc # "clean"
      /\ fence \in FullFences
      /\ json_loads(json_text) # JSONDecodeError )
    => /\ analysis = clean(json_text)
       /\ pc # "decode_error"
       /\ pc = "parsed" => parsed = json_loads(clean(json_text))

\* C18 witness: the JSON text { } inside ```json and ``` on lines of their
\* own was cleaned and parsed to the object it parses to without the fence.
C18_Witness ==
    /\ pc = "parsed"
    /\ json_text = << "{", " ", "}" >>
    /\ fence = [ open |-> FenceOpen \o << "\n" >>, close |-> << "\n" >> \o FenceClose ]
    /\ analysis = json_text
    /\ parsed = << "object" >>
-----------------------------------------------------------------------------
(* Further properties of the session loop and of the dispatch pipeline,     *)
(* checked under Spec.                                                      *)

\* C21: an input line that is the exit command terminates the session loop
\* independently of the dispatch pipeline: no Model Gateway call and no
\* Backend Adapter operation is made for it and the conversation history is
\* left unchanged.
C21_ExitBypassesPipeline ==
    /\ [] ( ( user_input # << >> /\ IsExit(user_input) ) =>
              /\ pc = "done"
              /\ model_calls = << >>
              /\ backend_calls = << >>
              /\ analysis_data = NoDescriptor
              /\ handler = "none"
              /\ Len(added) = 2 * turns )
    /\ [][ ( user_input' # << >> /\ IsExit(user_input') ) =>
              /\ pc = "prompt"
              /\ pc' = "done"
              /\ UNCHANGED << historyVars, turns, model_calls, backend_calls >> ]_vars

\* C21 witness: after one processed utterance the line "Exit" ended the
\* session, with the history holding the two messages of that utterance.
C21_Witness ==
    /\ pc = "done"
    /\ user_input = << "E", "x", "i", "t" >>
    /\ turns = 1
    /\ Len(messages) = 2
    /\ model_calls = << >>
    /\ backend_calls = << >>
-----------------------------------------------------------------------------
(* Properties of the Model Gateway, checked under SpecGateway.             *)

\* C22: one Model Gateway call makes exactly one provider request and never
\* retries: when the provider fails, the call raises to its caller after that
\* single attempt, the input-too-large condition as the distinguished error
\* carrying the remediation hint and every other provider error unchanged.
C22_SingleAttempt ==
    /\ pc = "gateway" => provider_requests = << >>
    /\ pc = "gateway_done" =>
         /\ Len(provider_requests) = 1
         /\ LET outcome == provider_requests[1].outcome
            IN  IF outcome \in ProviderErrors
                THEN /\ gateway_result.kind = "raise"
                     /\ IF /\ outcome.type = "BadRequestError"
                           /\ outcome.text = "context_length_exceeded"
                        THEN gateway_result.value = ContentTooLong
                        ELSE gateway_result.value = outcome
                ELSE gateway_result = [ kind |-> "return", value |-> outcome ]

\* C22 witness: the provider raised a rate-limit error on the one request made
\* with a stored history of two messages, and the call raised that error.
C22_Witness ==
    /\ pc = "gateway_done"
    /\ Len(messages) = 2
    /\ Len(provider_requests) = 1
    /\ provider_requests[1].history = messages
    /\ provider_requests[1].outcome =
           [ type |-> "RateLimitError", text |-> "context_length_exceeded" ]
    /\ gateway_result = [ kind |-> "raise", value |-> provider_requests[1].outcome ]

-----------------------------------------------------------------------------
(* Further properties of the classifiers, checked under SpecClassify.       *)

\* the recognized entities of each category
RecognizedEntities ==
    [ summarize    |-> {"count", "unread_only", "time_period"},
      send         |-> {"to", "subject", "content", "cc", "bcc"},
      retrieve     |-> {"email_id", "search_query", "time_period"},
      create       |-> {"event_title", "start_date", "duration", "attendees",
                        "location"},
      list         |-> {"start_date", "end_date", "count"},
      availability |-> {"start_date", "end_date", "duration"} ]

\* C23: entity projection: when a classifier returns category C for
\* parameters P, the returned entities mapping has exactly the keys that are
\* both in P and in C's recognized entities, each with the value it has in P;
\* no key outside C's recognized entities is ever returned.
C23_EntityProjection ==
    ( pc = "classified" /\ intent_category # "None" ) =>
        LET P == analysis_data.parameters
        IN  /\ DOMAIN entities = DOMAIN P \cap RecognizedEntities[intent_category]
            /\ \A k \in DOMAIN entities : entities[k] = P[k]
            /\ DOMAIN entities \subseteq RecognizedEntities[intent_category]

\* C23 witness: "Schedule meeting" with event_title, start_date, duration,
\* duration_minutes and email_id was classified create, and only the three
\* recognized keys were returned, with their values.
C23_Witness ==
    /\ pc = "classified"
    /\ classifier = << "calendar" >>
    /\ intent_category = "create"
    /\ DOMAIN analysis_data.parameters =
           { "event_title", "start_date", "duration", "duration_minutes",
             "email_id" }
    /\ entities = [ k \in { "event_title", "start_date", "duration" } |-> "b" ]
-----------------------------------------------------------------------------
(* Further properties of the dispatch pipeline, checked under Spec.         *)

\* the fixed unclear-intent message of each domain's handler
UnclearIntentMessage ==
    [ gmail    |-> << "UnclearEmailIntent" >>,
      calendar |-> << "UnclearCalendarIntent" >> ]

\* C24: when a domain's keyword set matched but that domain's classifier
\* returns no category, the dispatcher returns that domain's fixed
\* unclear-intent message, invokes no Backend Adapter operation, and does not
\* try the other domain's handler or the general free-text fallback.
C24_UnclearIntentIsTerminal ==
    ( handler \in { "gmail", "calendar" } /\ intent_category = "None" ) =>
        /\ pc = "respond"
        /\ response = UnclearIntentMessage[handler]
        /\ classifier = << handler >>
        /\ backend_calls = << >>
        /\ Len(model_calls) = 1
        /\ model_calls[1].purpose = "analysis"

\* C24 witness: "send meeting invite" holds keywords of both domains and lacks
\* the recipient; the email classifier returned no category and the request
\* ended with the email handler's unclear-intent message.
C24_Witness ==
    /\ pc = "respond"
    /\ analysis_data.intent = SendMeetingInvite
    /\ DomainKeywords[analysis_data.intent].calendar
    /\ DOMAIN analysis_data.parameters = { "event_title", "start_date" }
    /\ handler = "gmail"
    /\ intent_category = "None"
    /\ response = << "UnclearEmailIntent" >>
-----------------------------------------------------------------------------
(* Further properties of the free-slot search, checked under SpecAvail.     *)

\* the minute, counted from midnight of the first day, that a rendered slot
\* time names
MinuteOf(rendered) ==
    rendered.day * 1440
    + ( ( rendered.hour % 12 ) + IF rendered.meridiem = "PM" THEN 12 ELSE 0 ) * 60
    + rendered.minute

\* C25: every slot returned by check_availability is disjoint from every
\* existing event of the range (it ends at or before the event's start or
\* starts at or after the event's end), for every start-sorted event list
\* including overlapping events and an event nested inside an earlier longer
\* event.
C25_SlotsAvoidEvents ==
    pc = "avail_done" =>
        \A s \in DOMAIN available_slots : \A e \in DOMAIN events :
            \/ MinuteOf(available_slots[s].end) <= events[e].start
            \/ MinuteOf(available_slots[s].start) >= events[e].end
-----------------------------------------------------------------------------
(* Properties of the mail read paths, checked under SpecMail.              *)

\* C26: the two mail read paths agree on read status: for the same backend
\* message, get_all_emails and get_email build an Email with the same is_read
\* value, which is true exactly when the message does not carry the UNREAD
\* label.
C26_ReadPathsAgree ==
    ( pc = "mail" /\ listed_email # NoEmail /\ fetched_email # NoEmail ) =>
        /\ listed_email.is_read = fetched_email.is_read
        /\ listed_email.is_read = ( "UNREAD" \notin backend_message.labelIds )
-----------------------------------------------------------------------------
(* Further properties of the dispatch pipeline, checked under Spec.         *)

\* C27: a duration is recognised only under the parameter key duration: a
\* descriptor that carries duration_minutes and no duration key makes event
\* creation call the backend with the 60-minute default, and makes an
\* availability request with start_date and end_date fail classification.
C27_DurationOnlyUnderDuration ==
    ( /\ classifier = << "calendar" >>
      /\ "duration_minutes" \in DOMAIN analysis_data.parameters
      /\ "duration" \notin DOMAIN analysis_data.parameters )
    => /\ "duration" \notin DOMAIN entities
       /\ "duration_minutes" \notin DOMAIN entities
       /\ \A i \in CallsOf("create_event") :
              backend_calls[i].args.duration_minutes = DefaultDuration
       /\ CallsOf("check_availability") = {}
       /\ ( /\ HitsOfIntents[analysis_data.intent].calendar # {}
            /\ FirstOf(calendar_intent_categories,
                       HitsOfIntents[analysis_data.intent].calendar)
                   = "availability"
            /\ { "start_date", "end_date" }
                   \subseteq DOMAIN analysis_data.parameters )
          => /\ intent_category = "None"
             /\ response = << "UnclearCalendarIntent" >>

\* C27 witness: "Schedule meeting" with event_title, start_date and
\* duration_minutes = 30 created the event with a duration of 60 minutes.
C27_Witness ==
    /\ pc = "respond"
    /\ intent_category = "create"
    /\ DOMAIN analysis_data.parameters =
           { "event_title", "start_date", "duration_minutes" }
    /\ analysis_data.parameters["duration_minutes"] = 30
    /\ Len(backend_calls) = 1
    /\ backend_calls[1].op = "create_event"
    /\ backend_calls[1].args.duration_minutes = 60

\* C28: per-request call bounds: processing one utterance makes at most two
\* Model Gateway calls (the analysis call plus at most one of summary, send
\* review or general answer) and invokes at most one Backend Adapter
\* operation; in particular the backend send and create-event operations each
\* execute at most once per utterance.
C28_CallBounds ==
    /\ Len(model_calls) <= 2
    /\ Len(model_calls) >= 1 => model_calls[1].purpose = "analysis"
    /\ Len(model_calls) = 2 =>
           model_calls[2].purpose \in { "summary", "review", "general" }
    /\ Len(backend_calls) <= 1
    /\ Cardinality(CallsOf("create_email")) <= 1
    /\ Cardinality(CallsOf("create_event")) <= 1

\* C28 witness: a send request made the analysis call and the review call and
\* invoked the backend send operation once.
C28_Witness ==
    /\ pc = "respond"
    /\ Len(model_calls) = 2
    /\ model_calls[2].purpose = "review"
    /\ Len(backend_calls) = 1
    /\ backend_calls[1].op = "create_email"
    /\ backend_calls[1].outcome = "failed"
=============================================================================
